---- MODULE Spec2Model ----
(***************************************************************************)
(* A model of mcp-resonance's ResonanceEngine (resonanceEngine.ts): the    *)
(* bounded observation store, the pattern detector, the coupling analyzer, *)
(* the harmonic feedback amplifier, the state aggregator, the suggestion   *)
(* engine and the coupling graph, and of BridgeIntegrationAdapter: its     *)
(* event handlers, which turn events into moments, and the composite view  *)
(* it builds from the engine's answers.                                    *)
(*                                                                         *)
(* Numbers.  The engine's strengths, novelties and coherence are IEEE      *)
(* doubles.  They are modelled in fixed point: a real x is the integer     *)
(* x * SCALE, products are divided by SCALE and quotients are rounded      *)
(* down.  Timestamps and durations are integer milliseconds, as in the     *)
(* code.                                                                   *)
(*                                                                         *)
(* Time.  Date.now() is the variable now.  It is read once per engine call *)
(* (a call is far shorter than a millisecond) and advances between calls   *)
(* by the action Tick.                                                     *)
(***************************************************************************)
EXTENDS Integers, Sequences, FiniteSets, TLC

VARIABLES
    observations,   \* ResonanceEngine.observations: EcosystemMoment[]
    patterns,       \* ResonanceEngine.patterns: Map in insertion order
    couplings,      \* ResonanceEngine.couplings: Map in insertion order
    harmonics,      \* ResonanceEngine.harmonics: HarmonicFeedback[]
    config,         \* ResonanceEngine.config: Required<ResonanceConfig>
    now,            \* Date.now()
    history,        \* ghost: the moments appended since construction or the last reset
    couplingLog,    \* ghost: what the last analyzeCouplings did, one entry per qualifying pair
    harmonicLog,    \* ghost: what the last detectHarmonic did, one entry per pattern pair
    reads,          \* ghost: the calls that only read, and what they returned, since the
                    \*        last addObservation or reset
    lastOp,         \* ghost: the last completed operation and what it was given
    ticks,          \* ghost: how often the clock has advanced
    env,            \* the environment: the sets the callers' inputs are drawn from
    serverLoads,        \* AdaptiveLoadBalancer.serverLoads: Map server -> load
    serverCapacities,   \* AdaptiveLoadBalancer.serverCapacities: Map server -> capacity
    timers,             \* the pending setTimeout callbacks of balance_load, oldest first
    propagationChains,  \* EmergentOrchestrator.propagationChains: Map operation -> chain
    networkCouplings,   \* ResonantCouplingNetwork.couplings: Map server -> Map server -> value
    harmonyMetrics,     \* ResonantCouplingNetwork.harmonyMetrics: Map server -> harmony
    served,             \* ghost: how many calls the prototype systems have served
    orchestrated        \* ghost: the operation names passed to orchestrate, in call order

\* the state of the prototype systems that tools.ts creates next to the engine
prototypes == <<serverLoads, serverCapacities, timers, propagationChains,
                networkCouplings, harmonyMetrics, served, orchestrated>>

vars == <<observations, patterns, couplings, harmonics, config, now, history,
          couplingLog, harmonicLog, reads, lastOp, ticks, env, prototypes>>

engine == <<observations, patterns, couplings, harmonics>>

----------------------------------------------------------------------------
(* Numbers and program constants *)

SCALE == 10000

DefaultNovelty == SCALE \div 2          \* o.novelty ?? 0.5
InitialCouplingStrength == (3 * SCALE) \div 10
CouplingStep == SCALE \div 10           \* 0.1
RecentDeltaMs == 60000
FeedbackDeltaMs == 5000
HarmonicDeltaMs == 30000
HarmonicsKept == 100
ActiveCouplingMs == 60000
VisibleCouplingMs == 120000
ResonantCoherence == SCALE \div 2       \* totalCoherence > 0.5
IntentionStrength == (6 * SCALE) \div 10 \* p.strength > 0.6
MaxDominant == 5
MaxIntentions == 3
LastTypes == 5

Min(a, b) == IF a < b THEN a ELSE b
Abs(a) == IF a < 0 THEN 0 - a ELSE a

----------------------------------------------------------------------------
(* Arrays *)

ToSet(s) == { s[i] : i \in DOMAIN s }

Includes(s, x) == \E i \in DOMAIN s : s[i] = x

\* Array.prototype.filter with a predicate given as the set of accepted elements
Filter(s, keep) == SelectSeq(s, LAMBDA x : x \in keep)

\* Array.prototype.slice(-n) for n >= 0: slice(-0) is slice(0), the whole array
SliceLast(s, n) ==
    IF n = 0 \/ n >= Len(s) THEN s ELSE SubSeq(s, Len(s) - n + 1, Len(s))

\* Array.prototype.slice(0, n)
SliceFirst(s, n) == IF n >= Len(s) THEN s ELSE SubSeq(s, 1, n)

\* Array.from(new Set(s)): the first occurrence of each element, in order
RECURSIVE Dedup(_)
Dedup(s) ==
    IF s = <<>> THEN <<>>
    ELSE LET r == Dedup(SubSeq(s, 1, Len(s) - 1))
             x == s[Len(s)]
         IN IF Includes(r, x) THEN r ELSE Append(r, x)

RECURSIVE SumSeq(_)
SumSeq(s) == IF s = <<>> THEN 0 ELSE s[1] + SumSeq(Tail(s))

RECURSIVE Concat(_)
Concat(ss) == IF ss = <<>> THEN <<>> ELSE ss[1] \o Concat(Tail(ss))

----------------------------------------------------------------------------
(* Moments *)

\* novelty and relevance are number | undefined: <<>> is undefined, <<x>> is x
Moment(id, ts, src, kind, concepts, novelty) ==
    [id |-> id, timestamp |-> ts, source |-> src, type |-> kind,
     concepts |-> concepts, novelty |-> novelty, relevance |-> <<>>]

NoveltyOf(o) == IF o.novelty = <<>> THEN DefaultNovelty ELSE o.novelty[1]

----------------------------------------------------------------------------
(* detectPatterns *)

\* The pushes of the counting loop, in order: one <<concept, moment>> per entry of
\* every stored moment's concept list (a concept listed twice is pushed twice).
ConceptPushes(obs) ==
    Concat([i \in 1..Len(obs) |->
              [j \in 1..Len(obs[i].concepts) |-> <<obs[i].concepts[j], obs[i]>>]])

\* conceptFrequency.get(concept)
MomentsOf(pushes, concept) ==
    LET mine == SelectSeq(pushes, LAMBDA e : e[1] = concept)
    IN [k \in 1..Len(mine) |-> mine[k][2]]

\* conceptFrequency.keys(): a Map iterates in order of first insertion
ConceptOrder(pushes) == Dedup([k \in 1..Len(pushes) |-> pushes[k][1]])

\* Math.min(1, moments.length / 10)
FrequencyStrength(n) == Min(SCALE, (n * SCALE) \div 10)

\* `pattern-${concept}-${Date.now()}`
PatternId(concept, t) == <<"pattern", concept, t>>

PatternIndex(pats, id) ==
    IF \E i \in DOMAIN pats : pats[i].id = id
    THEN CHOOSE i \in DOMAIN pats : pats[i].id = id
    ELSE 0

NewPattern(concept, moments, t) ==
    [id |-> PatternId(concept, t),
     name |-> <<concept, "Resonance">>,
     concepts |-> <<concept>>,
     occurrences |-> moments,
     frequency |-> Len(moments),
     strength |-> FrequencyStrength(Len(moments)),
     emergenceTime |-> IF moments = <<>> THEN t ELSE moments[1].timestamp,
     relatedPatterns |-> <<>>]

RefreshPattern(existing, moments) ==
    [existing EXCEPT !.occurrences = moments,
                     !.frequency = Len(moments),
                     !.strength = FrequencyStrength(Len(moments))]

\* the body of the second loop for one concept that is frequent enough
UpsertPattern(pats, concept, moments, t) ==
    LET k == PatternIndex(pats, PatternId(concept, t))
    IN IF k = 0
       THEN Append(pats, NewPattern(concept, moments, t))
       ELSE [pats EXCEPT ![k] = RefreshPattern(pats[k], moments)]

RECURSIVE UpsertPatterns(_, _, _, _, _)
UpsertPatterns(pats, order, pushes, minFreq, t) ==
    IF order = <<>> THEN pats
    ELSE LET concept == Head(order)
             moments == MomentsOf(pushes, concept)
             next == IF Len(moments) >= minFreq
                     THEN UpsertPattern(pats, concept, moments, t)
                     ELSE pats
         IN UpsertPatterns(next, Tail(order), pushes, minFreq, t)

\* DetectPatterns rebuilding the registry from the store alone
DetectPatternsFromScratch(obs, pats, minFreq, t) ==
    LET pushes == ConceptPushes(obs)
    IN UpsertPatterns(<<>>, ConceptOrder(pushes), pushes, minFreq, t)

DetectPatterns(obs, pats, minFreq, t) ==
    LET pushes == ConceptPushes(obs)
    IN UpsertPatterns(pats, ConceptOrder(pushes), pushes, minFreq, t)

----------------------------------------------------------------------------
(* analyzeCouplings *)

SequentialKinds ==
    { <<"meditation", "insight">>, <<"insight", "critique">>,
      <<"critique", "meditation">> }

\* InferCouplingType with the shared-source test made before the follow-up test
InferLateralFirst(curr, next) ==
    IF curr.source = next.source THEN "lateral"
    ELSE IF <<curr.type, next.type>> \in SequentialKinds THEN "sequential"
    ELSE IF next.timestamp - curr.timestamp < FeedbackDeltaMs THEN "feedback"
    ELSE "hierarchical"

InferCouplingType(curr, next) ==
    IF <<curr.type, next.type>> \in SequentialKinds THEN "sequential"
    ELSE IF curr.source = next.source THEN "lateral"
    ELSE IF next.timestamp - curr.timestamp < FeedbackDeltaMs THEN "feedback"
    ELSE "hierarchical"

\* curr.concepts.filter((c) => next.concepts.includes(c))
SharedConcepts(curr, next) == Filter(curr.concepts, ToSet(next.concepts))

\* `${curr.source}->${next.source}`
CouplingId(curr, next) == <<curr.source, next.source>>

CouplingIndex(cps, id) ==
    IF \E i \in DOMAIN cps : cps[i].key = id
    THEN CHOOSE i \in DOMAIN cps : cps[i].key = id
    ELSE 0

\* CouplingIncrement that ignores isRecent
CouplingIncrementFlat(curr, next) == CouplingStep

\* 0.1 * (isRecent ? 1 : 0.5)
CouplingIncrement(curr, next) ==
    IF next.timestamp - curr.timestamp < RecentDeltaMs
    THEN CouplingStep
    ELSE CouplingStep \div 2

\* StrengthenCoupling without the Math.min(1, ...) clamp
StrengthenUnclamped(coupling, curr, next) ==
    [coupling EXCEPT
        !.strength = coupling.strength + CouplingIncrement(curr, next),
        !.sharedConcepts = Dedup(coupling.sharedConcepts \o SharedConcepts(curr, next)),
        !.lastActive = next.timestamp]

\* StrengthenCoupling taking the type of the pair that strengthens the coupling
StrengthenCouplingRetyped(coupling, curr, next) ==
    [coupling EXCEPT
        !.strength = Min(SCALE, coupling.strength + CouplingIncrement(curr, next)),
        !.type = InferCouplingType(curr, next),
        !.sharedConcepts = Dedup(coupling.sharedConcepts \o SharedConcepts(curr, next)),
        !.lastActive = next.timestamp]

StrengthenCoupling(coupling, curr, next) ==
    [coupling EXCEPT
        !.strength = Min(SCALE, coupling.strength + CouplingIncrement(curr, next)),
        !.sharedConcepts = Dedup(coupling.sharedConcepts \o SharedConcepts(curr, next)),
        !.lastActive = next.timestamp]

NewCoupling(curr, next) ==
    [key |-> CouplingId(curr, next),
     sourceId |-> curr.source,
     targetId |-> next.source,
     strength |-> InitialCouplingStrength,
     type |-> InferCouplingType(curr, next),
     sharedConcepts |-> SharedConcepts(curr, next),
     lastActive |-> next.timestamp]

\* One iteration of the scan, on the pair (obs[i], obs[i+1]).  st holds the coupling
\* registry and the log of what the scan has done so far.
CouplingPair(st, obs, i) ==
    LET curr == obs[i]
        next == obs[i + 1]
        k == CouplingIndex(st.couplings, CouplingId(curr, next))
    IN IF SharedConcepts(curr, next) = <<>> THEN st
       ELSE IF k > 0
       THEN LET after == StrengthenCoupling(st.couplings[k], curr, next)
            IN [couplings |-> [st.couplings EXCEPT ![k] = after],
                log |-> Append(st.log, [index |-> i, curr |-> curr, next |-> next,
                                        existed |-> TRUE,
                                        before |-> <<st.couplings[k]>>,
                                        after |-> after])]
       ELSE LET after == NewCoupling(curr, next)
            IN [couplings |-> Append(st.couplings, after),
                log |-> Append(st.log, [index |-> i, curr |-> curr, next |-> next,
                                        existed |-> FALSE,
                                        before |-> <<>>,
                                        after |-> after])]

RECURSIVE CouplingScan(_, _, _)
CouplingScan(st, obs, i) ==
    IF i > Len(obs) - 1 THEN st
    ELSE CouplingScan(CouplingPair(st, obs, i), obs, i + 1)

\* AnalyzeCouplings looking only at the pair that the new moment completes
AnalyzeCouplingsLastPair(obs, cps) ==
    CouplingScan([couplings |-> cps, log |-> <<>>], obs,
                 IF Len(obs) > 1 THEN Len(obs) - 1 ELSE 1)

AnalyzeCouplings(obs, cps) ==
    CouplingScan([couplings |-> cps, log |-> <<>>], obs, 1)

----------------------------------------------------------------------------
(* detectHarmonic *)

\* CommonOccurrences counting every pair of occurrences that lie close together
CommonPairs(p1, p2) ==
    Cardinality({ ab \in (DOMAIN p1.occurrences) \X (DOMAIN p2.occurrences) :
                    Abs(p1.occurrences[ab[1]].timestamp - p2.occurrences[ab[2]].timestamp)
                        < HarmonicDeltaMs })

\* p1.occurrences.filter((o1) => p2.occurrences.some((o2) => |o1.ts - o2.ts| < 30000)).length
CommonOccurrences(p1, p2) ==
    Len(SelectSeq(p1.occurrences,
                  LAMBDA o1 : \E k \in DOMAIN p2.occurrences :
                      Abs(o1.timestamp - p2.occurrences[k].timestamp) < HarmonicDeltaMs))

\* (p1.strength * p2.strength * commonOccurrences) / p1.frequency
Amplification(p1, p2, common) ==
    (p1.strength * p2.strength * common) \div (SCALE * p1.frequency)

\* Math.min(1, p.strength + 0.05 * amplification)
Amplified(strength, amplification) ==
    Min(SCALE, strength + (5 * amplification) \div 100)

Feedback(p1, p2, common) ==
    [pattern1Id |-> p1.id,
     pattern2Id |-> p2.id,
     amplificationFactor |-> Amplification(p1, p2, common),
     resonanceFrequency |-> SCALE \div (common + 1)]

\* The body of the inner loop for patternArray[i], patternArray[j].  st holds the
\* pattern registry (the array's elements are the registry's own objects), the
\* feedback history and the log of what the run has done so far.
HarmonicPair(st, i, j) ==
    LET p1 == st.patterns[i]
        p2 == st.patterns[j]
        common == CommonOccurrences(p1, p2)
        amp == Amplification(p1, p2, common)
    IN IF common > 0
       THEN LET s1 == Amplified(p1.strength, amp)
                s2 == Amplified(p2.strength, amp)
            IN [patterns |-> [st.patterns EXCEPT ![i].strength = s1, ![j].strength = s2],
                harmonics |-> Append(st.harmonics, Feedback(p1, p2, common)),
                log |-> Append(st.log, [i |-> i, j |-> j, p1 |-> p1, p2 |-> p2,
                                        common |-> common,
                                        strength1 |-> s1, strength2 |-> s2,
                                        appended |-> <<Feedback(p1, p2, common)>>])]
       ELSE [st EXCEPT !.log = Append(st.log, [i |-> i, j |-> j, p1 |-> p1, p2 |-> p2,
                                               common |-> common,
                                               strength1 |-> p1.strength,
                                               strength2 |-> p2.strength,
                                               appended |-> <<>>])]

\* the inner loop, from j on, for patternArray[i]
RECURSIVE HarmonicRow(_, _, _)
HarmonicRow(st, i, j) ==
    IF j > Len(st.patterns) THEN st
    ELSE HarmonicRow(HarmonicPair(st, i, j), i, j + 1)

\* the outer loop, from i on
RECURSIVE HarmonicLoop(_, _)
HarmonicLoop(st, i) ==
    IF i > Len(st.patterns) THEN st
    ELSE HarmonicLoop(HarmonicRow(st, i, i + 1), i + 1)

\* DetectHarmonic with the truncation keeping the oldest records: slice(0, 100)
DetectHarmonicKeepsOldest(pats, harm) ==
    LET st == HarmonicLoop([patterns |-> pats, harmonics |-> harm, log |-> <<>>], 1)
    IN [st EXCEPT !.harmonics = SliceFirst(st.harmonics, HarmonicsKept)]

DetectHarmonic(pats, harm) ==
    LET st == HarmonicLoop([patterns |-> pats, harmonics |-> harm, log |-> <<>>], 1)
    IN [st EXCEPT !.harmonics = SliceLast(st.harmonics, HarmonicsKept)]

----------------------------------------------------------------------------
(* getEcosystemState *)

RecentObservations(obs, window, t) ==
    SelectSeq(obs, LAMBDA o : o.timestamp > t - window)

\* AverageNovelty taking the default novelty for an empty window
AverageNoveltyDefaulting(recent) ==
    IF Len(recent) = 0 THEN DefaultNovelty
    ELSE SumSeq([k \in 1..Len(recent) |-> NoveltyOf(recent[k])]) \div Len(recent)

\* sum / (length || 1)
AverageNovelty(recent) ==
    SumSeq([k \in 1..Len(recent) |-> NoveltyOf(recent[k])])
        \div (IF Len(recent) = 0 THEN 1 ELSE Len(recent))

AverageStrength(pats) ==
    SumSeq([k \in 1..Len(pats) |-> pats[k].strength])
        \div (IF Len(pats) = 0 THEN 1 ELSE Len(pats))

\* Math.min(1, avgNovelty * (sum of strengths / (patterns.size || 1)))
TotalCoherence(recent, pats) ==
    Min(SCALE, (AverageNovelty(recent) * AverageStrength(pats)) \div SCALE)

ActiveCouplings(cps, t) ==
    SelectSeq(cps, LAMBDA c : t - c.lastActive < ActiveCouplingMs)

\* IsResonant without the test of the feedback history
IsResonantWithoutHistory(recent, pats, cps, harm, t) ==
    /\ Len(ActiveCouplings(cps, t)) > 0
    /\ TotalCoherence(recent, pats) > ResonantCoherence

IsResonant(recent, pats, cps, harm, t) ==
    /\ Len(ActiveCouplings(cps, t)) > 0
    /\ TotalCoherence(recent, pats) > ResonantCoherence
    /\ Len(harm) > 2

\* conceptScores: concept -> accumulated novelty, in order of first insertion
ConceptScores(recent) ==
    LET pushes == ConceptPushes(recent)
        order == ConceptOrder(pushes)
    IN [k \in 1..Len(order) |->
          <<order[k],
            SumSeq([n \in 1..Len(MomentsOf(pushes, order[k])) |->
                      NoveltyOf(MomentsOf(pushes, order[k])[n])])>>]

\* entries.sort((a, b) => b[1] - a[1]): a stable sort, highest score first
RECURSIVE SortByScore(_)
SortByScore(entries) ==
    IF entries = <<>> THEN <<>>
    ELSE LET best == CHOOSE i \in DOMAIN entries :
                        /\ \A k \in DOMAIN entries : entries[k][2] <= entries[i][2]
                        /\ \A k \in 1..(i - 1) : entries[k][2] < entries[i][2]
             rest == [k \in 1..(Len(entries) - 1) |->
                        IF k < best THEN entries[k] ELSE entries[k + 1]]
         IN <<entries[best]>> \o SortByScore(rest)

\* DominantConcepts without the sort: the first five concepts in order of insertion
DominantConceptsUnsorted(recent) ==
    LET top == SliceFirst(ConceptScores(recent), MaxDominant)
    IN [k \in 1..Len(top) |-> top[k][1]]

DominantConcepts(recent) ==
    LET top == SliceFirst(SortByScore(ConceptScores(recent)), MaxDominant)
    IN [k \in 1..Len(top) |-> top[k][1]]

\* EmergentIntentions admitting a strength of exactly 0.6
EmergentIntentionsInclusive(pats) ==
    LET strong == SliceFirst(SelectSeq(pats, LAMBDA p : p.strength >= IntentionStrength),
                             MaxIntentions)
    IN [k \in 1..Len(strong) |-> strong[k].name]

\* EmergentIntentions keeping the three most recently registered: slice(-3)
EmergentIntentionsLastThree(pats) ==
    LET strong == SliceLast(SelectSeq(pats, LAMBDA p : p.strength > IntentionStrength),
                            MaxIntentions)
    IN [k \in 1..Len(strong) |-> strong[k].name]

EmergentIntentions(pats) ==
    LET strong == SliceFirst(SelectSeq(pats, LAMBDA p : p.strength > IntentionStrength),
                             MaxIntentions)
    IN [k \in 1..Len(strong) |-> strong[k].name]

GetEcosystemState(obs, pats, cps, harm, cfg, t) ==
    LET recent == RecentObservations(obs, cfg.coherenceWindow, t)
    IN [observations |-> recent,
        patterns |-> pats,
        couplings |-> cps,
        totalCoherence |-> TotalCoherence(recent, pats),
        isResonant |-> IsResonant(recent, pats, cps, harm, t),
        dominantConcepts |-> DominantConcepts(recent),
        emergentIntentions |-> EmergentIntentions(pats),
        observedAt |-> t]

----------------------------------------------------------------------------
(* suggestNextSynthesis *)

\* SuggestedAction with the resonance test made before the critique test
SuggestedActionWeaveFirst(obs, resonant) ==
    LET last == SliceLast(obs, LastTypes)
        lastTypes == [k \in 1..Len(last) |-> last[k].type]
    IN IF \A k \in DOMAIN lastTypes : lastTypes[k] \in {"meditation", "insight"}
       THEN "consult"
       ELSE IF resonant THEN "weave"
       ELSE IF \E k \in DOMAIN lastTypes : lastTypes[k] = "critique"
       THEN "meditate"
       ELSE "observe"

SuggestedAction(obs, resonant) ==
    LET last == SliceLast(obs, LastTypes)
        lastTypes == [k \in 1..Len(last) |-> last[k].type]
    IN IF \A k \in DOMAIN lastTypes : lastTypes[k] \in {"meditation", "insight"}
       THEN "consult"
       ELSE IF \E k \in DOMAIN lastTypes : lastTypes[k] = "critique"
       THEN "meditate"
       ELSE IF resonant THEN "weave"
       ELSE "observe"

\* null is <<>>, a suggestion s is <<s>>
SuggestNextSynthesis(obs, pats, cps, harm, cfg, t) ==
    LET state == GetEcosystemState(obs, pats, cps, harm, cfg, t)
        ids == SliceFirst(state.patterns, 3)
    IN IF Len(state.emergentIntentions) = 0 THEN <<>>
       ELSE << [id |-> <<"synthesis", t>>,
                reason |-> <<SuggestedAction(obs, state.isResonant),
                             state.emergentIntentions>>,
                targetConcepts |-> state.dominantConcepts,
                suggestedAction |-> SuggestedAction(obs, state.isResonant),
                confidence |-> state.totalCoherence,
                basedOnPatterns |-> [k \in 1..Len(ids) |-> ids[k].id]] >>

----------------------------------------------------------------------------
(* visualizeCoupling *)

\* Math.round(x) of a fixed-point x >= 0: halves round up
Round(x) == (x + SCALE \div 2) \div SCALE

\* cs.sort((a, b) => b.strength - a.strength): a stable sort, strongest first
RECURSIVE SortByStrength(_)
SortByStrength(cs) ==
    IF cs = <<>> THEN <<>>
    ELSE LET best == CHOOSE i \in DOMAIN cs :
                        /\ \A k \in DOMAIN cs : cs[k].strength <= cs[i].strength
                        /\ \A k \in 1..(i - 1) : cs[k].strength < cs[i].strength
             rest == [k \in 1..(Len(cs) - 1) |-> IF k < best THEN cs[k] ELSE cs[k + 1]]
         IN <<cs[best]>> \o SortByStrength(rest)

\* VisualizeCoupling listing the active couplings in the registry's order
VisualizeCouplingUnsorted(cps, t) ==
    LET active == SelectSeq(cps, LAMBDA c : t - c.lastActive < VisibleCouplingMs)
    IN IF Len(active) = 0
       THEN [heading |-> "No active couplings detected.", graph |-> <<>>]
       ELSE [heading |-> "COUPLING GRAPH:",
             graph |-> [k \in 1..Len(active) |->
                          [sourceId |-> active[k].sourceId,
                           filled |-> Round(active[k].strength * 10),
                           targetId |-> active[k].targetId,
                           type |-> active[k].type,
                           shared |-> active[k].sharedConcepts]]]

\* The text returned, by its parts: the heading, and per coupling the two lines
\* `${sourceId} ${bar} ${targetId}` and `Type: ${type}, Shared: [${shared}]`, the bar
\* being `filled` full blocks followed by 10 - filled light ones.
VisualizeCoupling(cps, t) ==
    LET active == SortByStrength(
                      SelectSeq(cps, LAMBDA c : t - c.lastActive < VisibleCouplingMs))
    IN IF Len(active) = 0
       THEN [heading |-> "No active couplings detected.", graph |-> <<>>]
       ELSE [heading |-> "COUPLING GRAPH:",
             graph |-> [k \in 1..Len(active) |->
                          [sourceId |-> active[k].sourceId,
                           filled |-> Round(active[k].strength * 10),
                           targetId |-> active[k].targetId,
                           type |-> active[k].type,
                           shared |-> active[k].sharedConcepts]]]

----------------------------------------------------------------------------
(* BridgeIntegrationAdapter.getEcosystemStateWithRecommendation *)

WeaveCoherence == (7 * SCALE) \div 10     \* state.totalCoherence > 0.7

\* Recommendation with the coherence test admitting exactly 0.7
RecommendationInclusive(state, suggestion) ==
    IF suggestion = <<>> THEN <<>>
    ELSE << [action |-> suggestion[1].suggestedAction,
             reason |-> suggestion[1].reason,
             confidence |-> suggestion[1].confidence,
             shouldWeave |-> \/ suggestion[1].suggestedAction = "weave"
                             \/ (state.isResonant /\ state.totalCoherence >= WeaveCoherence)] >>

\* null is <<>>, a recommendation r is <<r>>
Recommendation(state, suggestion) ==
    IF suggestion = <<>> THEN <<>>
    ELSE << [action |-> suggestion[1].suggestedAction,
             reason |-> suggestion[1].reason,
             confidence |-> suggestion[1].confidence,
             shouldWeave |-> \/ suggestion[1].suggestedAction = "weave"
                             \/ (state.isResonant /\ state.totalCoherence > WeaveCoherence)] >>

\* { ...state, recommendation }
GetEcosystemStateWithRecommendation(state, suggestion) ==
    [observations |-> state.observations,
     patterns |-> state.patterns,
     couplings |-> state.couplings,
     totalCoherence |-> state.totalCoherence,
     isResonant |-> state.isResonant,
     dominantConcepts |-> state.dominantConcepts,
     emergentIntentions |-> state.emergentIntentions,
     observedAt |-> state.observedAt,
     recommendation |-> Recommendation(state, suggestion)]

----------------------------------------------------------------------------
(* BridgeIntegrationAdapter: events to moments *)

Upper == "ABCDEFGHIJKLMNOPQRSTUVWXYZ"
Lower == "abcdefghijklmnopqrstuvwxyz"

CharAt(s, i) == SubSeq(s, i, i)

LowerChar(ch) ==
    IF \E i \in 1..Len(Upper) : CharAt(Upper, i) = ch
    THEN CharAt(Lower, CHOOSE i \in 1..Len(Upper) : CharAt(Upper, i) = ch)
    ELSE ch

\* String.prototype.toLowerCase, on the letters A to Z
RECURSIVE ToLowerCase(_)
ToLowerCase(s) ==
    IF s = "" THEN ""
    ELSE LowerChar(CharAt(s, 1)) \o ToLowerCase(SubSeq(s, 2, Len(s)))

\* s.split(' '): the pieces between single spaces, empty pieces included
RECURSIVE Split(_)
Split(s) ==
    IF \E i \in 1..Len(s) : CharAt(s, i) = " "
    THEN LET i == CHOOSE i \in 1..Len(s) :
                     /\ CharAt(s, i) = " "
                     /\ \A k \in 1..(i - 1) : CharAt(s, k) # " "
         IN <<SubSeq(s, 1, i - 1)>> \o Split(SubSeq(s, i + 1, Len(s)))
    ELSE <<s>>

Whitespace == {" ", "\t", "\n"}

\* s.split(/\s+/): the pieces between runs of whitespace
RECURSIVE SplitWhitespace(_)
SplitWhitespace(s) ==
    IF \E i \in 1..Len(s) : CharAt(s, i) \in Whitespace
    THEN LET i == CHOOSE i \in 1..Len(s) :
                     /\ CharAt(s, i) \in Whitespace
                     /\ \A k \in 1..(i - 1) : CharAt(s, k) \notin Whitespace
             j == CHOOSE j \in i..Len(s) :
                     /\ \A k \in i..j : CharAt(s, k) \in Whitespace
                     /\ j = Len(s) \/ CharAt(s, j + 1) \notin Whitespace
         IN <<SubSeq(s, 1, i - 1)>> \o SplitWhitespace(SubSeq(s, j + 1, Len(s)))
    ELSE <<s>>

\* w.includes(c)
StringIncludes(w, c) ==
    \E i \in 1..(Len(w) - Len(c) + 1) : SubSeq(w, i, i + Len(c) - 1) = c

MinWordLength == 5      \* w.length > 5
MaxCritiqueConcepts == 5

\* f.toLowerCase().split(' ').filter(w => w.length > 5)
LongWords(f) == SelectSeq(Split(ToLowerCase(f)), LAMBDA w : Len(w) > MinWordLength)

\* CritiqueConcepts without the slice(0, 5)
CritiqueConceptsUncut(extractedFeedback) ==
    Concat([k \in 1..Len(extractedFeedback) |-> LongWords(extractedFeedback[k])])

CritiqueConcepts(extractedFeedback) ==
    SliceFirst(Concat([k \in 1..Len(extractedFeedback) |->
                          LongWords(extractedFeedback[k])]),
               MaxCritiqueConcepts)

ConceptCandidates ==
    <<"emergence", "pattern", "resonance", "synthesis", "weave", "bridge",
      "harmony", "flow", "constraint", "coupling", "coherence", "feedback">>

\* the candidates that some word of the narrative includes, or the fallback pair
NarrativeConcepts(narrative) ==
    LET words == SplitWhitespace(ToLowerCase(narrative))
        concepts == SelectSeq(ConceptCandidates,
                              LAMBDA c : \E k \in DOMAIN words : StringIncludes(words[k], c))
    IN IF Len(concepts) > 0 THEN concepts ELSE <<"synthesis", "narrative">>

\* data.insights.map(i => i.pattern)
InsightConcepts(insights) == [k \in 1..Len(insights) |-> insights[k].pattern]

----------------------------------------------------------------------------
(* The engine's operations *)

\* Retain with the eviction keeping the oldest moments: slice(0, max) for slice(-max)
RetainOldest(obs, moment, maxObservations) ==
    LET pushed == Append(obs, moment)
    IN IF Len(pushed) > maxObservations
       THEN SliceFirst(pushed, maxObservations)
       ELSE pushed

\* this.observations.push(moment), then the eviction of lines 581-583
Retain(obs, moment, maxObservations) ==
    LET pushed == Append(obs, moment)
    IN IF Len(pushed) > maxObservations
       THEN SliceLast(pushed, maxObservations)
       ELSE pushed

\* AddObservation with the detector run on the store before the eviction
AddObservationDetectsBeforeEviction(moment) ==
    LET obs == Retain(observations, moment, config.maxObservations)
        detected == DetectPatterns(Append(observations, moment), patterns,
                                   config.patternMinFrequency, now)
        analyzed == AnalyzeCouplings(obs, couplings)
        harmonic == IF config.enableAutoAmplification
                    THEN DetectHarmonic(detected, harmonics)
                    ELSE [patterns |-> detected, harmonics |-> harmonics, log |-> <<>>]
    IN /\ observations' = obs
       /\ patterns' = harmonic.patterns
       /\ couplings' = analyzed.couplings
       /\ harmonics' = harmonic.harmonics
       /\ couplingLog' = analyzed.log
       /\ harmonicLog' = harmonic.log
       /\ reads' = <<>>
       /\ history' = Append(history, moment)
       /\ lastOp' = [op |-> "addObservation", cleared |-> <<>>]
       /\ UNCHANGED <<config, now, ticks, env, prototypes>>

\* AddObservation running the amplifier whatever enableAutoAmplification says
AddObservationAlwaysAmplifies(moment) ==
    LET obs == Retain(observations, moment, config.maxObservations)
        detected == DetectPatterns(obs, patterns, config.patternMinFrequency, now)
        analyzed == AnalyzeCouplings(obs, couplings)
        harmonic == DetectHarmonic(detected, harmonics)
    IN /\ observations' = obs
       /\ patterns' = harmonic.patterns
       /\ couplings' = analyzed.couplings
       /\ harmonics' = harmonic.harmonics
       /\ couplingLog' = analyzed.log
       /\ harmonicLog' = harmonic.log
       /\ reads' = <<>>
       /\ history' = Append(history, moment)
       /\ lastOp' = [op |-> "addObservation", cleared |-> <<>>]
       /\ UNCHANGED <<config, now, ticks, env, prototypes>>

\* addObservation(moment), called by `caller`: the engine's owner, or a handler of
\* the adapter on receiving an event
AddObservationFor(moment, caller) ==
    LET obs == Retain(observations, moment, config.maxObservations)
        detected == DetectPatterns(obs, patterns, config.patternMinFrequency, now)
        analyzed == AnalyzeCouplings(obs, couplings)
        harmonic == IF config.enableAutoAmplification
                    THEN DetectHarmonic(detected, harmonics)
                    ELSE [patterns |-> detected, harmonics |-> harmonics, log |-> <<>>]
    IN /\ observations' = obs
       /\ patterns' = harmonic.patterns
       /\ couplings' = analyzed.couplings
       /\ harmonics' = harmonic.harmonics
       /\ couplingLog' = analyzed.log
       /\ harmonicLog' = harmonic.log
       /\ reads' = <<>>
       /\ history' = Append(history, moment)
       /\ lastOp' = caller
       /\ UNCHANGED <<config, now, ticks, env, prototypes>>

AddObservation(moment) ==
    AddObservationFor(moment, [op |-> "addObservation", cleared |-> <<>>])

\* A caller records a moment.  Its timestamp is the caller's: the clock's reading,
\* or a time before it.
Observe ==
    /\ Len(history) < env.maxAppends
    /\ \E src \in env.sources, kind \in env.types, concepts \in env.conceptLists,
          novelty \in env.novelties, age \in env.ages :
          AddObservation(Moment(Len(history) + 1, now - age, src, kind, concepts, novelty))

\* Reset that forgets the feedback history
ResetKeepsHarmonics ==
    /\ observations' = <<>>
    /\ patterns' = <<>>
    /\ couplings' = <<>>
    /\ harmonics' = harmonics
    /\ history' = <<>>
    /\ couplingLog' = <<>>
    /\ harmonicLog' = <<>>
    /\ reads' = <<>>
    /\ lastOp' = [op |-> "reset",
                  cleared |-> <<Len(observations), Len(patterns), Len(couplings),
                                Len(harmonics)>>]
    /\ UNCHANGED <<config, now, ticks, env, prototypes>>

Reset ==
    /\ observations' = <<>>
    /\ patterns' = <<>>
    /\ couplings' = <<>>
    /\ harmonics' = <<>>
    /\ history' = <<>>
    /\ couplingLog' = <<>>
    /\ harmonicLog' = <<>>
    /\ reads' = <<>>
    /\ lastOp' = [op |-> "reset",
                  cleared |-> <<Len(observations), Len(patterns), Len(couplings),
                                Len(harmonics)>>]
    /\ UNCHANGED <<config, now, ticks, env, prototypes>>

\* Time passes between two calls.
Tick ==
    /\ lastOp.op # "tick"
    /\ ticks < env.maxTicks
    /\ \E d \in env.tickSteps : now' = now + d
    /\ ticks' = ticks + 1
    /\ lastOp' = [op |-> "tick", cleared |-> <<>>]
    /\ UNCHANGED <<observations, patterns, couplings, harmonics, config, history,
                   couplingLog, harmonicLog, reads, env, prototypes>>

Next == Observe \/ Reset \/ Tick

\* A call that only reads returns value to its caller.
Returns(op, value) ==
    /\ Len(reads) < env.maxReads
    /\ reads' = Append(reads, [op |-> op, value |-> value])
    /\ lastOp' = [op |-> op, cleared |-> <<>>]
    /\ UNCHANGED <<config, history, couplingLog, harmonicLog, env, prototypes>>

\* CallGetEcosystemState keeping in the store only the moments inside the window
CallGetEcosystemStatePruning ==
    /\ Returns("getEcosystemState",
               GetEcosystemState(observations, patterns, couplings, harmonics, config, now))
    /\ observations' = RecentObservations(observations, config.coherenceWindow, now)
    /\ UNCHANGED <<patterns, couplings, harmonics, now, ticks>>

\* CallGetEcosystemState running the amplifier on the patterns it is about to return
CallGetEcosystemStateAmplifying ==
    LET amplified == DetectHarmonic(patterns, harmonics)
    IN /\ Returns("getEcosystemState",
                  GetEcosystemState(observations, amplified.patterns, couplings,
                                    harmonics, config, now))
       /\ patterns' = amplified.patterns
       /\ UNCHANGED <<observations, couplings, harmonics, now, ticks>>

CallGetEcosystemState ==
    /\ Returns("getEcosystemState",
               GetEcosystemState(observations, patterns, couplings, harmonics, config, now))
    /\ UNCHANGED <<observations, patterns, couplings, harmonics, now, ticks>>

CallSuggestNextSynthesis ==
    /\ Returns("suggestNextSynthesis",
               SuggestNextSynthesis(observations, patterns, couplings, harmonics, config,
                                    now))
    /\ UNCHANGED <<observations, patterns, couplings, harmonics, now, ticks>>

CallVisualizeCoupling ==
    /\ Returns("visualizeCoupling", VisualizeCoupling(couplings, now))
    /\ UNCHANGED <<observations, patterns, couplings, harmonics, now, ticks>>

\* The adapter calls the engine twice; the clock may advance between the two calls.
CallGetEcosystemStateWithRecommendation ==
    \E d \in env.readDelays :
        LET state == GetEcosystemState(observations, patterns, couplings, harmonics,
                                       config, now)
            suggestion == SuggestNextSynthesis(observations, patterns, couplings,
                                               harmonics, config, now + d)
        IN /\ d > 0 => ticks < env.maxTicks
           /\ Returns("getEcosystemStateWithRecommendation",
                      GetEcosystemStateWithRecommendation(state, suggestion))
           /\ now' = now + d
           /\ ticks' = IF d > 0 THEN ticks + 1 ELSE ticks
           /\ UNCHANGED <<observations, patterns, couplings, harmonics>>

\* The adapter receives an event and records it as a moment.  lastOp keeps the
\* handler called and the event's data.
Handles(handler, data, moment) ==
    /\ Len(history) < env.maxAppends
    /\ AddObservationFor(moment, [op |-> handler, cleared |-> <<>>, data |-> data])

OnMeditationLogged ==
    \E data \in env.meditations :
        Handles("onMeditationLogged", data,
                Moment(<<"bridge-meditation", Len(history) + 1>>, now, "bridge",
                       "meditation", data.extractedPatterns, <<data.novelty>>))

OnCritiqueLogged ==
    \E data \in env.critiques :
        Handles("onCritiqueLogged", data,
                [Moment(<<"bridge-critique", Len(history) + 1>>, now, "bridge",
                        "critique", CritiqueConcepts(data.extractedFeedback), <<>>)
                    EXCEPT !.relevance = <<data.relevanceScore>>])

OnNarrativeWoven ==
    \E data \in env.narratives :
        Handles("onNarrativeWoven", data,
                Moment(<<"dream-weave", Len(history) + 1>>, now, "dream-weaver",
                       "weave", NarrativeConcepts(data.narrative), <<>>))

OnInsightGenerated ==
    \E data \in env.insightEvents :
        Handles("onInsightGenerated", data,
                Moment(<<"creative-insight", Len(history) + 1>>, now, "creative",
                       "insight", InsightConcepts(data.insights), <<data.novelty>>))

\* An engine whose owner also reads it.
NextReading ==
    \/ Observe
    \/ Reset
    \/ Tick
    \/ CallGetEcosystemState
    \/ CallSuggestNextSynthesis
    \/ CallVisualizeCoupling

\* An engine read through the adapter, which offers no reset.
NextAdapter ==
    \/ Observe
    \/ Tick
    \/ CallGetEcosystemStateWithRecommendation

\* An engine fed by the adapter's event handlers.
NextBridge ==
    \/ OnMeditationLogged
    \/ OnCritiqueLogged
    \/ OnNarrativeWoven
    \/ OnInsightGenerated
    \/ Tick

----------------------------------------------------------------------------
(* The prototype systems: AdaptiveLoadBalancer *)

\* what the prototype systems leave alone
engineSide == <<observations, patterns, couplings, harmonics, config, now, history,
                couplingLog, harmonicLog, reads, ticks, env>>

\* Maps are functions on the set of their keys; <<>> is the empty Map.
\* map.get(key) ?? otherwise
MapGet(map, key, otherwise) == IF key \in DOMAIN map THEN map[key] ELSE otherwise

\* map.set(key, value)
MapSet(map, key, value) ==
    [k \in DOMAIN map \cup {key} |-> IF k = key THEN value ELSE map[k]]

Max(a, b) == IF a >= b THEN a ELSE b

DefaultCapacity == 10

\* if (bestServer): null and the empty string are falsy
Truthy(server) == server # <<>> /\ server[1] # ""

\* The loop of distributeLoad from `servers` on.  best is <<>> while bestServer is null
\* and bestScore Infinity, else <<[server, load, capacity]>>; utilizations are compared
\* as fractions: l1 / c1 < l2 / c2 iff l1 * c2 < l2 * c1, and l / c < 0.8 iff 10 l < 8 c.
RECURSIVE BestServer(_, _, _, _)
BestServer(loads, capacities, servers, best) ==
    IF servers = <<>> THEN best
    ELSE LET server == Head(servers)
             load == MapGet(loads, server, 0)
             capacity == MapGet(capacities, server, 1)
             better == /\ best = <<>> \/ load * best[1].capacity < best[1].load * capacity
                       /\ 10 * load < 8 * capacity
         IN BestServer(loads, capacities, Tail(servers),
                       IF better
                       THEN <<[server |-> server, load |-> load, capacity |-> capacity]>>
                       ELSE best)

\* distributeLoad(operation, servers): what it returns (<<>> is null) and the loads
\* it leaves
DistributeLoad(loads, capacities, servers) ==
    LET best == BestServer(loads, capacities, servers, <<>>)
        bestServer == IF best = <<>> THEN <<>> ELSE <<best[1].server>>
    IN [bestServer |-> bestServer,
        serverLoads |-> IF Truthy(bestServer)
                        THEN MapSet(loads, bestServer[1],
                                    MapGet(loads, bestServer[1], 0) + 1)
                        ELSE loads]

\* registerServer(serverId, capacity): the load Map and the capacity Map it leaves
RegisterLoad(loads, serverId) == MapSet(loads, serverId, MapGet(loads, serverId, 0))

RegisterCapacity(capacities, serverId, capacity) ==
    MapSet(capacities, serverId, Max(1, capacity))

\* completeOperation(serverId): the load Map it leaves
CompleteOperation(loads, serverId) ==
    MapSet(loads, serverId, Max(0, MapGet(loads, serverId, 0) - 1))

\* a call of the prototype systems is served
Serves(call) ==
    /\ served < env.maxCalls
    /\ served' = served + 1
    /\ orchestrated' = IF call.op = "orchestrate"
                       THEN Append(orchestrated, call.operation)
                       ELSE orchestrated
    /\ lastOp' = call
    /\ UNCHANGED engineSide

CallRegisterServer ==
    \E serverId \in env.servers, capacity \in env.capacities :
        /\ Serves([op |-> "registerServer", cleared |-> <<>>, serverId |-> serverId,
                   capacity |-> capacity])
        /\ serverLoads' = RegisterLoad(serverLoads, serverId)
        /\ serverCapacities' = RegisterCapacity(serverCapacities, serverId, capacity)
        /\ UNCHANGED <<timers, propagationChains, networkCouplings, harmonyMetrics>>

CallDistributeLoad ==
    \E servers \in env.serverLists :
        LET done == DistributeLoad(serverLoads, serverCapacities, servers)
        IN /\ Serves([op |-> "distributeLoad", cleared |-> <<>>, servers |-> servers,
                      result |-> done.bestServer])
           /\ serverLoads' = done.serverLoads
           /\ UNCHANGED <<serverCapacities, timers, propagationChains, networkCouplings,
                          harmonyMetrics>>

CallCompleteOperation ==
    \E serverId \in env.servers :
        /\ Serves([op |-> "completeOperation", cleared |-> <<>>, serverId |-> serverId])
        /\ serverLoads' = CompleteOperation(serverLoads, serverId)
        /\ UNCHANGED <<serverCapacities, timers, propagationChains, networkCouplings,
                       harmonyMetrics>>

\* A load balancer called directly.
NextBalancer ==
    \/ CallRegisterServer
    \/ CallDistributeLoad
    \/ CallCompleteOperation

----------------------------------------------------------------------------
(* The balance_load tool and its timers *)

\* servers.forEach((srv) => loadBalancer.registerServer(srv)): the loads and the
\* capacities after it
RECURSIVE RegisterEach(_, _, _)
RegisterEach(loads, capacities, servers) ==
    IF servers = <<>> THEN [serverLoads |-> loads, serverCapacities |-> capacities]
    ELSE RegisterEach(RegisterLoad(loads, Head(servers)),
                      RegisterCapacity(capacities, Head(servers), DefaultCapacity),
                      Tail(servers))

\* Scheduled with the test assigned !== null in place of if (assigned)
ScheduledUnlessNull(pending, assigned) ==
    IF assigned # <<>> THEN Append(pending, assigned[1]) ELSE pending

\* if (assigned) setTimeout(() => loadBalancer.completeOperation(assigned), 100): the
\* pending timers after it, each named by the server it completes.  Every timer has
\* the same delay, so timers fire in the order they were set.
Scheduled(pending, assigned) ==
    IF Truthy(assigned) THEN Append(pending, assigned[1]) ELSE pending

\* the balance_load tool is called
CallBalanceLoad ==
    \E servers \in env.serverLists :
        LET registered == RegisterEach(serverLoads, serverCapacities, servers)
            done == DistributeLoad(registered.serverLoads, registered.serverCapacities,
                                   servers)
        IN /\ Serves([op |-> "balance_load", cleared |-> <<>>, servers |-> servers,
                      result |-> done.bestServer])
           /\ serverLoads' = done.serverLoads
           /\ serverCapacities' = registered.serverCapacities
           /\ timers' = Scheduled(timers, done.bestServer)
           /\ UNCHANGED <<propagationChains, networkCouplings, harmonyMetrics>>

\* the oldest pending timer fires: its callback completes the operation
TimerFires ==
    /\ timers # <<>>
    /\ serverLoads' = CompleteOperation(serverLoads, Head(timers))
    /\ timers' = Tail(timers)
    /\ lastOp' = [op |-> "timer", cleared |-> <<>>, serverId |-> Head(timers)]
    /\ UNCHANGED <<serverCapacities, propagationChains, networkCouplings, harmonyMetrics,
                   served, orchestrated>>
    /\ UNCHANGED engineSide

\* The load balancer of tools.ts: only balance_load and its timers change it.
NextBalanceTool ==
    \/ CallBalanceLoad
    \/ TimerFires

----------------------------------------------------------------------------
(* The prototype systems: EmergentOrchestrator *)

MaxSteps == 3

\* Math.pow(1.2, i) in units of 1 / SCALE, for the i the loop reaches
RECURSIVE Pow12(_)
Pow12(i) == IF i = 0 THEN SCALE ELSE (Pow12(i - 1) * 12) \div 10

\* one pushed OrchestrationStep; the consequence `consequential_effect_${i}` is kept
\* as the pair of its prefix and i
OrchestrationStep(i, operation) ==
    [step |-> i, operation |-> operation,
     consequence |-> <<"consequential_effect_", i>>,
     amplification |-> Pow12(i)]

\* Orchestrate without the limit of three steps: one step per earlier call and one more
OrchestrateUncapped(chains, operation) ==
    LET chain == MapGet(chains, operation, <<>>)
    IN [results |-> [k \in 1 .. Len(chain) + 1 |-> OrchestrationStep(k - 1, operation)],
        propagationChains |-> MapSet(chains, operation, Append(chain, operation))]

\* orchestrate(operation, _context): the steps it returns and the chains it leaves
Orchestrate(chains, operation) ==
    LET chain == MapGet(chains, operation, <<>>)
    IN [results |-> [k \in 1 .. Min(Len(chain) + 1, MaxSteps) |->
                        OrchestrationStep(k - 1, operation)],
        propagationChains |-> MapSet(chains, operation, Append(chain, operation))]

\* getPropagationMetrics(): operation -> chain.length
GetPropagationMetrics(chains) == [operation \in DOMAIN chains |-> Len(chains[operation])]

CallOrchestrate ==
    \E operation \in env.operations :
        LET done == Orchestrate(propagationChains, operation)
        IN /\ Serves([op |-> "orchestrate", cleared |-> <<>>, operation |-> operation,
                      result |-> done.results])
           /\ propagationChains' = done.propagationChains
           /\ UNCHANGED <<serverLoads, serverCapacities, timers, networkCouplings,
                          harmonyMetrics>>

CallGetPropagationMetrics ==
    /\ lastOp.op # "getPropagationMetrics"
    /\ Serves([op |-> "getPropagationMetrics", cleared |-> <<>>,
               result |-> GetPropagationMetrics(propagationChains)])
    /\ UNCHANGED <<serverLoads, serverCapacities, timers, propagationChains,
                   networkCouplings, harmonyMetrics>>

\* An orchestrator and its callers.
NextOrchestrator ==
    \/ CallOrchestrate
    \/ CallGetPropagationMetrics

----------------------------------------------------------------------------
(* The prototype systems: ResonantCouplingNetwork *)

\* Numbers are in units of 1 / SCALE; a number that may be NaN is <<>> for NaN and
\* <<value>> otherwise.

DefaultResonance == 5000

\* clamp(value)
Clamp(value) == IF value = <<>> THEN 0 ELSE Max(0, Min(SCALE, value[1]))

\* a string repeated n times
RECURSIVE Repeat(_, _)
Repeat(string, n) == IF n = 0 THEN "" ELSE string \o Repeat(string, n - 1)

\* JSON.stringify(signal ?? {}).length for a signal given as the list of its
\* <<key, value>> entries, keys and values strings that need no escaping:
\* the braces, then "key":"value" for each entry, with commas between
RECURSIVE EntriesLength(_)
EntriesLength(entries) ==
    IF entries = <<>> THEN 0
    ELSE Len(Head(entries)[1]) + Len(Head(entries)[2]) + 5
         + (IF Len(entries) > 1 THEN 1 ELSE 0) + EntriesLength(Tail(entries))

SignalComplexity(signal) == 2 + EntriesLength(signal)

\* Math.sin(signalComplexity * 0.01), rounded down, for the complexities of the
\* signals sent
Sin(hundredths) ==
    CASE hundredths = 2 -> 199
      [] hundredths = 161 -> 9992
      [] hundredths = 471 -> -10000

\* calculateResonance(signal, couplingStrength)
CalculateResonance(signal, couplingStrength) ==
    LET baseResonance == (Sin(SignalComplexity(signal)) * couplingStrength) \div SCALE
    IN Clamp(<<baseResonance + 5000>>)

\* updateHarmony(serverId, resonance): the harmony Map it leaves
UpdateHarmony(metrics, serverId, resonance) ==
    LET currentHarmony == MapGet(metrics, serverId, SCALE)
        newHarmony == (currentHarmony * 8 + resonance * 2) \div 10
    IN MapSet(metrics, serverId, Clamp(<<newHarmony>>))

\* registerServer(serverId) of the network: the coupling Map and the harmony Map
NetworkRegister(network, serverId) ==
    IF serverId \in DOMAIN network.couplings THEN network
    ELSE [couplings |-> MapSet(network.couplings, serverId, <<>>),
          harmonyMetrics |-> MapSet(network.harmonyMetrics, serverId, SCALE)]

\* CoupleServers setting only the coupling of serverA to serverB
CoupleServersOneWay(network, serverA, serverB, initialResonance) ==
    LET registered == NetworkRegister(NetworkRegister(network, serverA), serverB)
    IN [registered EXCEPT !.couplings =
           MapSet(@, serverA, MapSet(@[serverA], serverB, Clamp(initialResonance)))]

\* coupleServers(serverA, serverB, initialResonance)
CoupleServers(network, serverA, serverB, initialResonance) ==
    LET registered == NetworkRegister(NetworkRegister(network, serverA), serverB)
        first == MapSet(registered.couplings, serverA,
                        MapSet(registered.couplings[serverA], serverB,
                               Clamp(initialResonance)))
        second == MapSet(first, serverB,
                         MapSet(first[serverB], serverA, Clamp(initialResonance)))
    IN [registered EXCEPT !.couplings = second]

\* resonate(serverId, signal): the responses and the harmony Map it leaves.  The loop
\* updates the harmony of each coupled server once, from its own response.
Resonate(network, serverId, signal) ==
    IF serverId \notin DOMAIN network.couplings
    THEN [responses |-> <<>>, harmonyMetrics |-> network.harmonyMetrics]
    ELSE LET coupled == network.couplings[serverId]
             responses == [coupledServer \in DOMAIN coupled |->
                              CalculateResonance(signal, coupled[coupledServer])]
         IN [responses |-> responses,
             harmonyMetrics |->
                 [server \in DOMAIN network.harmonyMetrics \cup DOMAIN coupled |->
                     IF server \in DOMAIN coupled
                     THEN UpdateHarmony(network.harmonyMetrics, server,
                                        responses[server])[server]
                     ELSE network.harmonyMetrics[server]]]

network == [couplings |-> networkCouplings, harmonyMetrics |-> harmonyMetrics]

CallNetworkRegisterServer ==
    \E serverId \in env.servers :
        LET done == NetworkRegister(network, serverId)
        IN /\ Serves([op |-> "network.registerServer", cleared |-> <<>>,
                      serverId |-> serverId])
           /\ networkCouplings' = done.couplings
           /\ harmonyMetrics' = done.harmonyMetrics
           /\ UNCHANGED <<serverLoads, serverCapacities, timers, propagationChains>>

CallCoupleServers ==
    \E pair \in env.pairs, initialResonance \in env.resonances :
        LET done == CoupleServers(network, pair[1], pair[2], initialResonance)
        IN /\ Serves([op |-> "coupleServers", cleared |-> <<>>, serverA |-> pair[1],
                      serverB |-> pair[2]])
           /\ networkCouplings' = done.couplings
           /\ harmonyMetrics' = done.harmonyMetrics
           /\ UNCHANGED <<serverLoads, serverCapacities, timers, propagationChains>>

CallResonate ==
    \E serverId \in env.servers, signal \in env.signals :
        LET done == Resonate(network, serverId, signal)
        IN /\ Serves([op |-> "resonate", cleared |-> <<>>, serverId |-> serverId,
                      result |-> done.responses])
           /\ harmonyMetrics' = done.harmonyMetrics
           /\ UNCHANGED <<serverLoads, serverCapacities, timers, propagationChains,
                          networkCouplings>>

\* A coupling network and its callers.
NextNetwork ==
    \/ CallNetworkRegisterServer
    \/ CallCoupleServers
    \/ CallResonate

----------------------------------------------------------------------------
(* Construction *)

DefaultMaxObservations == 1000
DefaultPatternMinFrequency == 2
DefaultCouplingThreshold == (3 * SCALE) \div 10
DefaultCoherenceWindow == 300000

\* new ResonanceEngine(given): every option left out takes its default
Config(maxObservations, patternMinFrequency, enableAutoAmplification) ==
    [maxObservations |-> maxObservations,
     patternMinFrequency |-> patternMinFrequency,
     couplingThreshold |-> DefaultCouplingThreshold,
     coherenceWindow |-> DefaultCoherenceWindow,
     enableAutoAmplification |-> enableAutoAmplification]

\* The clock's reading when the engine is constructed (any instant will do; it
\* leaves room for timestamps older than the coherence window).
Epoch == 1000000

Constructed(cfg, environment) ==
    /\ observations = <<>>
    /\ patterns = <<>>
    /\ couplings = <<>>
    /\ harmonics = <<>>
    /\ config = cfg
    /\ now = Epoch
    /\ history = <<>>
    /\ couplingLog = <<>>
    /\ harmonicLog = <<>>
    /\ reads = <<>>
    /\ lastOp = [op |-> "new", cleared |-> <<>>]
    /\ ticks = 0
    /\ env = environment
    /\ serverLoads = <<>>
    /\ serverCapacities = <<>>
    /\ timers = <<>>
    /\ propagationChains = <<>>
    /\ networkCouplings = <<>>
    /\ harmonyMetrics = <<>>
    /\ served = 0
    /\ orchestrated = <<>>

(* Bounds of the explored runs *)
StoreAppends == 4
StoreTicks == 2

\* Any producer of moments on a small store: concept lists that are empty, share a
\* concept, or name a concept twice.
StoreEnv ==
    [sources |-> {"creative"},
     types |-> {"meditation"},
     conceptLists |-> {<<>>, <<"a">>, <<"a", "b">>, <<"b", "b">>},
     novelties |-> {<<>>},
     ages |-> {0},
     tickSteps |-> {1},
     maxAppends |-> StoreAppends,
     maxTicks |-> StoreTicks]

Init ==
    \E n \in 1..3, auto \in BOOLEAN :
        Constructed(Config(n, DefaultPatternMinFrequency, auto), StoreEnv)

Spec == Init /\ [][Next]_vars

DeepAppends == 5
DeepTicks == 1

\* Two producers that keep returning to the same concepts, on an engine with the
\* default capacity: long enough for a coupling to reach full strength.
DeepEnv ==
    [sources |-> {"creative", "bridge"},
     types |-> {"meditation"},
     conceptLists |-> {<<"a", "b">>},
     novelties |-> {<<>>},
     ages |-> {0},
     tickSteps |-> {1},
     maxAppends |-> DeepAppends,
     maxTicks |-> DeepTicks]

InitDeep ==
    \E auto \in BOOLEAN :
        Constructed(Config(DefaultMaxObservations, DefaultPatternMinFrequency, auto),
                    DeepEnv)

SpecDeep == InitDeep /\ [][Next]_vars

TypesAppends == 2
TypesTicks == 1

\* Two producers emitting every kind of the follow-up table and one outside it,
\* at once or twenty seconds apart.
TypesEnv ==
    [sources |-> {"creative", "bridge"},
     types |-> {"meditation", "insight", "critique", "observation"},
     conceptLists |-> {<<"a">>, <<"b">>},
     novelties |-> {<<>>},
     ages |-> {0, 20000},
     tickSteps |-> {1},
     maxAppends |-> TypesAppends,
     maxTicks |-> TypesTicks]

InitTypes ==
    Constructed(Config(DefaultMaxObservations, DefaultPatternMinFrequency, TRUE), TypesEnv)

SpecTypes == InitTypes /\ [][Next]_vars

DeltaAppends == 3
DeltaTicks == 1

\* Two producers whose moments follow each other at once or five minutes apart,
\* with concept lists that overlap in one concept or two, one naming a concept twice.
DeltaEnv ==
    [sources |-> {"creative", "bridge"},
     types |-> {"observation"},
     conceptLists |-> {<<"a", "a">>, <<"a", "b">>},
     novelties |-> {<<>>},
     ages |-> {0, 300000},
     tickSteps |-> {1},
     maxAppends |-> DeltaAppends,
     maxTicks |-> DeltaTicks]

InitDelta ==
    Constructed(Config(DefaultMaxObservations, DefaultPatternMinFrequency, TRUE), DeltaEnv)

SpecDelta == InitDelta /\ [][Next]_vars

ResonanceAppends == 7
ResonanceTicks == 1

\* One producer repeating three concepts with high or unstated novelty, and a clock
\* that moves a minute at a time: long enough for patterns to grow strong.
ResonanceEnv ==
    [sources |-> {"creative"},
     types |-> {"meditation"},
     conceptLists |-> {<<"a", "b", "c">>},
     novelties |-> {<<>>, <<(9 * SCALE) \div 10>>},
     ages |-> {0},
     tickSteps |-> {60000},
     maxAppends |-> ResonanceAppends,
     maxTicks |-> ResonanceTicks]

InitResonance ==
    \E auto \in BOOLEAN :
        Constructed(Config(DefaultMaxObservations, DefaultPatternMinFrequency, auto),
                    ResonanceEnv)

SpecResonance == InitResonance /\ [][Next]_vars

NoveltyAppends == 3
NoveltyTicks == 1

\* A producer whose novelty is unstated, below 0 or above 1.
NoveltyEnv ==
    [sources |-> {"creative"},
     types |-> {"meditation"},
     conceptLists |-> {<<>>, <<"a">>},
     novelties |-> {<<>>, <<0 - SCALE>>, <<6 * SCALE>>},
     ages |-> {0},
     tickSteps |-> {1},
     maxAppends |-> NoveltyAppends,
     maxTicks |-> NoveltyTicks]

InitNovelty ==
    Constructed(Config(DefaultMaxObservations, DefaultPatternMinFrequency, TRUE), NoveltyEnv)

SpecNovelty == InitNovelty /\ [][Next]_vars

HarmonicAppends == 3
HarmonicTicks == 1

\* Moments naming one or both of two concepts, stamped now or forty seconds ago, on
\* engines that register a pattern at the first or at the second occurrence.
HarmonicEnv ==
    [sources |-> {"creative"},
     types |-> {"meditation"},
     conceptLists |-> {<<"a">>, <<"b">>, <<"a", "b">>},
     novelties |-> {<<>>},
     ages |-> {0, 40000},
     tickSteps |-> {1},
     maxAppends |-> HarmonicAppends,
     maxTicks |-> HarmonicTicks]

InitHarmonic ==
    \E minFreq \in 1..2 :
        Constructed(Config(DefaultMaxObservations, minFreq, TRUE), HarmonicEnv)

SpecHarmonic == InitHarmonic /\ [][Next]_vars

SwitchAppends == 7
SwitchTicks == 1

\* One producer repeating two concepts with high novelty, on an engine constructed
\* with amplification on or off, and a clock that moves by a millisecond or by a
\* minute.
SwitchEnv ==
    [sources |-> {"creative"},
     types |-> {"meditation"},
     conceptLists |-> {<<"a", "b">>},
     novelties |-> {<<(9 * SCALE) \div 10>>},
     ages |-> {0},
     tickSteps |-> {1, 60000},
     maxAppends |-> SwitchAppends,
     maxTicks |-> SwitchTicks]

InitSwitch ==
    \E auto \in BOOLEAN :
        Constructed(Config(DefaultMaxObservations, DefaultPatternMinFrequency, auto),
                    SwitchEnv)

SpecSwitch == InitSwitch /\ [][Next]_vars

FeedbackAppends == 5
FeedbackTicks == 3

\* One producer repeating four concepts on an engine that registers a pattern at the
\* first occurrence, with a clock that moves between appends: every append after a
\* tick registers four more patterns, and the pairs of sixteen patterns push more
\* than a hundred feedback records in one run.
FeedbackEnv ==
    [sources |-> {"creative"},
     types |-> {"meditation"},
     conceptLists |-> {<<"a", "b", "c", "d">>},
     novelties |-> {<<>>},
     ages |-> {0},
     tickSteps |-> {1},
     maxAppends |-> FeedbackAppends,
     maxTicks |-> FeedbackTicks]

InitFeedback ==
    Constructed(Config(DefaultMaxObservations, 1, TRUE), FeedbackEnv)

SpecFeedback == InitFeedback /\ [][Next]_vars

ActionAppends == 6
ActionTicks == 1

\* One producer repeating two concepts with high novelty, its kinds drawn from a pair
\* of kinds fixed at construction, and a clock that moves a minute at a time: long
\* enough for a pattern to pass 0.6 and for the snapshot to become resonant.
ActionEnv ==
    [sources |-> {"creative"},
     types |-> {"meditation", "insight"},
     conceptLists |-> {<<"a", "b">>},
     novelties |-> {<<(9 * SCALE) \div 10>>},
     ages |-> {0},
     tickSteps |-> {60000},
     maxAppends |-> ActionAppends,
     maxTicks |-> ActionTicks]

KindPairs ==
    { {"meditation", "insight"}, {"meditation", "critique"},
      {"observation", "meditation"}, {"observation", "critique"} }

InitAction ==
    \E kinds \in KindPairs :
        Constructed(Config(DefaultMaxObservations, DefaultPatternMinFrequency, TRUE),
                    [ActionEnv EXCEPT !.types = kinds])

SpecAction == InitAction /\ [][Next]_vars

CompositeAppends == 10
CompositeTicks == 1
CompositeReads == 1

\* One producer repeating two concepts, its kind and its novelty fixed at
\* construction, read through the adapter: long enough for both patterns to reach
\* full strength.
CompositeEnv ==
    [sources |-> {"creative"},
     types |-> {"meditation"},
     conceptLists |-> {<<"a", "b">>},
     novelties |-> {<<SCALE>>},
     ages |-> {0},
     tickSteps |-> {60000},
     readDelays |-> {0, 1},
     maxAppends |-> CompositeAppends,
     maxTicks |-> CompositeTicks,
     maxReads |-> CompositeReads]

InitComposite ==
    \E kind \in {"meditation", "observation"}, novelty \in {(7 * SCALE) \div 10, SCALE} :
        Constructed(Config(DefaultMaxObservations, DefaultPatternMinFrequency, TRUE),
                    [CompositeEnv EXCEPT !.types = {kind}, !.novelties = {<<novelty>>}])

SpecComposite == InitComposite /\ [][NextAdapter]_vars

UncheckedAppends == 4
UncheckedTicks == 1
UncheckedReads == 1

\* One producer repeating two concepts, read through the adapter, whose novelty is 1
\* or, nothing checking its range, 6.
UncheckedEnv ==
    [sources |-> {"creative"},
     types |-> {"meditation"},
     conceptLists |-> {<<"a", "b">>},
     novelties |-> {<<SCALE>>, <<6 * SCALE>>},
     ages |-> {0},
     tickSteps |-> {60000},
     readDelays |-> {0, 1},
     maxAppends |-> UncheckedAppends,
     maxTicks |-> UncheckedTicks,
     maxReads |-> UncheckedReads]

InitUnchecked ==
    Constructed(Config(DefaultMaxObservations, DefaultPatternMinFrequency, TRUE),
                UncheckedEnv)

SpecUnchecked == InitUnchecked /\ [][NextAdapter]_vars

ReadingAppends == 3
ReadingTicks == 1
ReadingReads == 2

\* Two producers repeating two concepts and a clock that moves by the length of the
\* coherence window, on an engine its owner reads between appends.
ReadingEnv ==
    [sources |-> {"creative", "bridge"},
     types |-> {"meditation"},
     conceptLists |-> {<<"a", "b">>},
     novelties |-> {<<>>},
     ages |-> {0},
     tickSteps |-> {DefaultCoherenceWindow},
     maxAppends |-> ReadingAppends,
     maxTicks |-> ReadingTicks,
     maxReads |-> ReadingReads]

InitReading ==
    Constructed(Config(DefaultMaxObservations, DefaultPatternMinFrequency, TRUE),
                ReadingEnv)

SpecReading == InitReading /\ [][NextReading]_vars

RegistryAppends == 3
RegistryTicks == 1
RegistryReads == 1

\* Two producers on a store of two moments, read between appends: moments leave the
\* store while the patterns and couplings they gave rise to are registered.
RegistryEnv ==
    [sources |-> {"creative", "bridge"},
     types |-> {"meditation"},
     conceptLists |-> {<<"a", "b">>, <<"c">>},
     novelties |-> {<<>>},
     ages |-> {0},
     tickSteps |-> {1},
     maxAppends |-> RegistryAppends,
     maxTicks |-> RegistryTicks,
     maxReads |-> RegistryReads]

InitRegistry ==
    Constructed(Config(2, DefaultPatternMinFrequency, TRUE), RegistryEnv)

SpecRegistry == InitRegistry /\ [][NextReading]_vars

DominantAppends == 3
DominantTicks == 1

\* Moments naming seven concepts between them, with and without a novelty, recorded
\* now or dated a whole coherence window back.
DominantEnv ==
    [sources |-> {"creative"},
     types |-> {"meditation"},
     conceptLists |-> {<<"a", "b", "c", "d", "e", "f">>, <<"f", "g", "f">>},
     novelties |-> {<<>>, <<(9 * SCALE) \div 10>>},
     ages |-> {0, DefaultCoherenceWindow},
     tickSteps |-> {1},
     maxAppends |-> DominantAppends,
     maxTicks |-> DominantTicks]

InitDominant ==
    Constructed(Config(DefaultMaxObservations, DefaultPatternMinFrequency, FALSE),
                DominantEnv)

SpecDominant == InitDominant /\ [][Next]_vars

IntentionAppends == 7
IntentionTicks == 1

\* One producer returning to three concepts, some of its moments dwelling on a
\* fourth, with amplification off: strengths are the frequencies over ten.
IntentionEnv ==
    [sources |-> {"creative"},
     types |-> {"meditation"},
     conceptLists |-> {<<"a", "b", "c">>, <<"a", "b", "c", "d", "d">>},
     novelties |-> {<<>>},
     ages |-> {0},
     tickSteps |-> {1},
     maxAppends |-> IntentionAppends,
     maxTicks |-> IntentionTicks]

InitIntention ==
    Constructed(Config(DefaultMaxObservations, DefaultPatternMinFrequency, FALSE),
                IntentionEnv)

SpecIntention == InitIntention /\ [][Next]_vars

GraphAppends == 5
GraphTicks == 1
GraphReads == 1

\* Two producers sharing one concept, a clock that moves by the visibility window of
\* the graph, and an owner who asks for the graph.
GraphEnv ==
    [sources |-> {"creative", "bridge"},
     types |-> {"meditation"},
     conceptLists |-> {<<"a">>},
     novelties |-> {<<>>},
     ages |-> {0},
     tickSteps |-> {VisibleCouplingMs},
     maxAppends |-> GraphAppends,
     maxTicks |-> GraphTicks,
     maxReads |-> GraphReads]

InitGraph ==
    Constructed(Config(DefaultMaxObservations, DefaultPatternMinFrequency, FALSE),
                GraphEnv)

SpecGraph == InitGraph /\ [][NextReading]_vars

ThresholdAppends == 3
ThresholdTicks == 1

\* Two producers and two concepts, on engines configured with the default coupling
\* threshold or with a higher one.
ThresholdEnv ==
    [sources |-> {"creative", "bridge"},
     types |-> {"meditation"},
     conceptLists |-> {<<"a">>, <<"b">>},
     novelties |-> {<<>>},
     ages |-> {0},
     tickSteps |-> {RecentDeltaMs},
     maxAppends |-> ThresholdAppends,
     maxTicks |-> ThresholdTicks]

\* new ResonanceEngine({ couplingThreshold })
InitThreshold ==
    \E threshold \in {DefaultCouplingThreshold, SCALE \div 2} :
        Constructed([Config(DefaultMaxObservations, DefaultPatternMinFrequency, TRUE)
                        EXCEPT !.couplingThreshold = threshold],
                    ThresholdEnv)

SpecThreshold == InitThreshold /\ [][Next]_vars

BridgeAppends == 3
BridgeTicks == 1

\* The events of a meditation-critique-weave cycle: feedback with more than five long
\* words and with none, a narrative that names candidates and one that names none.
BridgeEnv ==
    [tickSteps |-> {1},
     maxAppends |-> BridgeAppends,
     maxTicks |-> BridgeTicks,
     meditations |->
        {[emergentSentence |-> "Patterns emerge",
          contextWords |-> <<"flow", "harmony">>,
          extractedPatterns |-> <<"emergence", "pattern">>,
          novelty |-> (8 * SCALE) \div 10]},
     critiques |->
        {[model |-> "critic", relevanceScore |-> (9 * SCALE) \div 10,
          extractedFeedback |-> <<"Strong Emergence of a pattern",
                                  "coherence resonance feedback across layers">>],
         [model |-> "critic", relevanceScore |-> SCALE \div 2,
          extractedFeedback |-> <<"too  short">>]},
     narratives |->
        {[narrative |-> "The Pattern  flows\ninto emergence", sourceTraces |-> <<1>>],
         [narrative |-> "nothing woven", sourceTraces |-> <<>>]},
     insightEvents |->
        {[insights |-> <<[pattern |-> "emergence", description |-> "rising"],
                         [pattern |-> "flow", description |-> "moving"]>>,
          novelty |-> (7 * SCALE) \div 10]}]

InitBridge ==
    Constructed(Config(DefaultMaxObservations, DefaultPatternMinFrequency, TRUE),
                BridgeEnv)

SpecBridge == InitBridge /\ [][NextBridge]_vars

KeyAppends == 4
KeyTicks == 1

\* Two producers alternating between two kinds of moment on one concept, at once or a
\* minute apart: pairs of different kinds and delays map to the same coupling key.
KeyEnv ==
    [sources |-> {"creative", "bridge"},
     types |-> {"meditation", "insight"},
     conceptLists |-> {<<"a">>},
     novelties |-> {<<>>},
     ages |-> {0},
     tickSteps |-> {RecentDeltaMs},
     maxAppends |-> KeyAppends,
     maxTicks |-> KeyTicks]

InitKey ==
    Constructed(Config(DefaultMaxObservations, DefaultPatternMinFrequency, TRUE), KeyEnv)

SpecKey == InitKey /\ [][Next]_vars

RescanAppends == 4
RescanTicks == 1

\* Two producers and two concepts on a store of three moments, the moments at once
\* or a minute apart: appends that share nothing with their predecessor, and pairs
\* that leave the store.
RescanEnv ==
    [sources |-> {"creative", "bridge"},
     types |-> {"observation"},
     conceptLists |-> {<<"a">>, <<"b">>},
     novelties |-> {<<>>},
     ages |-> {0},
     tickSteps |-> {RecentDeltaMs},
     maxAppends |-> RescanAppends,
     maxTicks |-> RescanTicks]

InitRescan ==
    Constructed(Config(3, DefaultPatternMinFrequency, TRUE), RescanEnv)

SpecRescan == InitRescan /\ [][Next]_vars

BalancerCalls == 5

\* Servers of capacity 1, 2 and 10, one of them never registered by name ("c" is only
\* listed) and one with the empty name.
BalancerEnv ==
    [servers |-> {"a", "b", ""},
     capacities |-> {0, 2, DefaultCapacity},
     serverLists |-> {<<>>, <<"a">>, <<"a", "b">>, <<"b", "a", "c">>, <<"">>},
     maxCalls |-> BalancerCalls]

InitBalancer ==
    Constructed(Config(DefaultMaxObservations, DefaultPatternMinFrequency, TRUE),
                BalancerEnv)

SpecBalancer == InitBalancer /\ [][NextBalancer]_vars

ToolCalls == 9

\* Enough calls to fill a server of capacity 10 up to 8 operations and be refused.
BalanceToolEnv ==
    [serverLists |-> {<<>>, <<"a">>, <<"b", "">>, <<"">>},
     maxCalls |-> ToolCalls]

InitBalanceTool ==
    Constructed(Config(DefaultMaxObservations, DefaultPatternMinFrequency, TRUE),
                BalanceToolEnv)

SpecBalanceTool == InitBalanceTool /\ [][NextBalanceTool]_vars

OrchestratorCalls == 6

\* Three operation names, one of them empty, called often enough to pass three steps.
OrchestratorEnv ==
    [operations |-> {"plan", "merge", ""},
     maxCalls |-> OrchestratorCalls]

InitOrchestrator ==
    Constructed(Config(DefaultMaxObservations, DefaultPatternMinFrequency, TRUE),
                OrchestratorEnv)

SpecOrchestrator == InitOrchestrator /\ [][NextOrchestrator]_vars

NetworkCalls == 4

\* Three servers, couplings between two pairs and of a server to itself, resonances
\* inside and outside [0, 1] and NaN, and signals whose JSON has 2, 161 and 471
\* characters (sines near 0, 1 and -1).
NetworkEnv ==
    [servers |-> {"a", "b", "c"},
     pairs |-> {<<"a", "b">>, <<"b", "c">>, <<"a", "a">>},
     resonances |-> {<<>>, <<DefaultResonance>>, <<15000>>, <<-2000>>},
     signals |-> {<<>>,
                  << <<"note", Repeat("resonance ", 15)>> >>,
                  << <<"note", Repeat("resonance ", 46)>> >>},
     maxCalls |-> NetworkCalls]

InitNetwork ==
    Constructed(Config(DefaultMaxObservations, DefaultPatternMinFrequency, TRUE),
                NetworkEnv)

SpecNetwork == InitNetwork /\ [][NextNetwork]_vars

----------------------------------------------------------------------------
(* What a caller would read in the current state *)

Snapshot == GetEcosystemState(observations, patterns, couplings, harmonics, config, now)

Suggestion == SuggestNextSynthesis(observations, patterns, couplings, harmonics, config, now)

\* the stored moments whose concept list names the concept, in store order
StoredWith(concept) ==
    SelectSeq(observations, LAMBDA o : \E k \in DOMAIN o.concepts : o.concepts[k] = concept)

StoredConcepts == UNION { ToSet(observations[i].concepts) : i \in DOMAIN observations }

\* the adjacent pairs of the store with a concept in common, by index of the earlier
QualifyingPairs ==
    { i \in 1..(Len(observations) - 1) :
        ToSet(observations[i].concepts) \cap ToSet(observations[i + 1].concepts) # {} }

\* The log of the last scan has one entry per qualifying pair, in store order, and an
\* entry says the key existed exactly when the scan had met the key before or the
\* registry held it since an earlier call.
CouplingLogFaithful ==
    /\ Len(couplingLog) = Cardinality(QualifyingPairs)
    /\ \A k \in DOMAIN couplingLog :
          /\ couplingLog[k].index \in QualifyingPairs
          /\ couplingLog[k].curr = observations[couplingLog[k].index]
          /\ couplingLog[k].next = observations[couplingLog[k].index + 1]
          /\ \A j \in 1..(k - 1) :
                /\ couplingLog[j].index < couplingLog[k].index
                /\ couplingLog[j].after.key = couplingLog[k].after.key
                      => couplingLog[k].existed
          /\ couplingLog[k].existed => couplingLog[k].before # <<>>
          \* the registry ends with what the last entry of each key left
          /\ (\A j \in (k + 1)..Len(couplingLog) :
                  couplingLog[j].after.key # couplingLog[k].after.key)
                => \E i \in DOMAIN couplings : couplings[i] = couplingLog[k].after

\* what the adapter's composite view returned, call by call, since the last
\* addObservation or reset
CompositeViews ==
    LET calls == SelectSeq(reads, LAMBDA r : r.op = "getEcosystemStateWithRecommendation")
    IN { calls[k].value : k \in DOMAIN calls }

\* the pairs of getEcosystemState calls, earlier and later, with no addObservation
\* or reset between them
SnapshotPairs ==
    { ij \in (DOMAIN reads) \X (DOMAIN reads) :
        /\ ij[1] < ij[2]
        /\ reads[ij[1]].op = "getEcosystemState"
        /\ reads[ij[2]].op = "getEcosystemState" }

IsFollowUp(a, b) ==
    \/ a = "meditation" /\ b = "insight"
    \/ a = "insight" /\ b = "critique"
    \/ a = "critique" /\ b = "meditation"

----------------------------------------------------------------------------
(* C1..C10 *)

C2_OnePatternPerConcept ==
    \A i, j \in DOMAIN patterns :
        patterns[i].concepts = patterns[j].concepts => i = j

\* C3: isResonant is true if and only if some coupling has now - lastActive < 60000,
\* totalCoherence > 0.5 and the harmonic-feedback history has more than 2 entries.
C3_ResonantIffAllThree ==
    Snapshot.isResonant <=>
        /\ \E i \in DOMAIN couplings : now - couplings[i].lastActive < 60000
        /\ 2 * Snapshot.totalCoherence > SCALE
        /\ Len(harmonics) > 2

\* a resonant snapshot
C3_Witness == Snapshot.isResonant

\* C4: totalCoherence lies in [0,1] whatever novelty the stored moments carry.
C4_CoherenceInUnitInterval ==
    Snapshot.totalCoherence >= 0 /\ Snapshot.totalCoherence <= SCALE

\* C5: every registered pattern's strength and every registered coupling's strength
\* lies in [0,1], with amplification enabled or not.
C5_StrengthsInUnitInterval ==
    /\ \A i \in DOMAIN patterns : patterns[i].strength >= 0 /\ patterns[i].strength <= SCALE
    /\ \A i \in DOMAIN couplings : couplings[i].strength >= 0 /\ couplings[i].strength <= SCALE

\* a coupling strengthened at full strength, where only the clamp keeps it at 1,
\* and a pattern pair just amplified
C5_Witness ==
    /\ \E k \in DOMAIN couplingLog :
          /\ couplingLog[k].existed
          /\ couplingLog[k].before[1].strength = SCALE
          /\ couplingLog[k].after.strength = SCALE
    /\ \E k \in DOMAIN harmonicLog :
          /\ harmonicLog[k].appended # <<>>
          /\ harmonicLog[k].strength1 > harmonicLog[k].p1.strength

\* C8: a qualifying adjacent pair (earlier, later) whose key source(earlier) ->
\* source(later) has no coupling creates one with strength 0.3, shared concepts = the
\* intersection, lastActive = later.timestamp and the type of the first matching
\* rule: sequential for the kinds meditation->insight, insight->critique,
\* critique->meditation; else lateral for equal sources; else feedback for a time
\* delta < 5000; else hierarchical.  After exactly two appends from different
\* sources sharing a concept within 1000 ms, the coupling has strength 0.3 and type
\* feedback unless the kinds are in the sequential table.
C8_NewCoupling ==
    /\ lastOp.op = "addObservation" => CouplingLogFaithful
    /\ \A k \in DOMAIN couplingLog :
          LET e == couplingLog[k]
              follows == IsFollowUp(e.curr.type, e.next.type)
              same == e.curr.source = e.next.source
              tight == e.next.timestamp - e.curr.timestamp < 5000
          IN ~e.existed =>
                /\ e.after.key = <<e.curr.source, e.next.source>>
                /\ e.after.sourceId = e.curr.source
                /\ e.after.targetId = e.next.source
                /\ e.after.strength * 10 = 3 * SCALE
                /\ ToSet(e.after.sharedConcepts) =
                       ToSet(e.curr.concepts) \cap ToSet(e.next.concepts)
                /\ e.after.lastActive = e.next.timestamp
                /\ e.after.type \in {"sequential", "lateral", "feedback", "hierarchical"}
                /\ e.after.type = "sequential" <=> follows
                /\ e.after.type = "lateral" <=> ~follows /\ same
                /\ e.after.type = "feedback" <=> ~follows /\ ~same /\ tight
                /\ e.after.type = "hierarchical" <=> ~follows /\ ~same /\ ~tight
    /\ (/\ Len(history) = 2
        /\ history[1].source # history[2].source
        /\ ToSet(history[1].concepts) \cap ToSet(history[2].concepts) # {}
        /\ history[2].timestamp - history[1].timestamp >= 0
        /\ history[2].timestamp - history[1].timestamp < 1000)
          => \E i \in DOMAIN couplings :
                /\ couplings[i].key = <<history[1].source, history[2].source>>
                /\ couplings[i].strength * 10 = 3 * SCALE
                /\ couplings[i].type =
                      IF IsFollowUp(history[1].type, history[2].type)
                      THEN "sequential" ELSE "feedback"

\* two appends from different sources within 1000 ms have created a feedback coupling
C8_Witness ==
    /\ Len(history) = 2
    /\ history[1].source # history[2].source
    /\ history[2].timestamp - history[1].timestamp \in 0..999
    /\ \E k \in DOMAIN couplingLog :
          ~couplingLog[k].existed /\ couplingLog[k].after.type = "feedback"
    /\ \E i \in DOMAIN couplings : couplings[i].type = "feedback"

\* C9: a qualifying adjacent pair whose key already has a coupling raises its strength
\* to min(1, strength + 0.1) for a time delta < 60000 ms and to
\* min(1, strength + 0.05) otherwise, makes its shared concepts the duplicate-free
\* union of the old ones and the pair's intersection, and sets lastActive to the
\* later moment's timestamp.
C9_ExistingCoupling ==
    /\ lastOp.op = "addObservation" => CouplingLogFaithful
    /\ \A k \in DOMAIN couplingLog :
          LET e == couplingLog[k]
              old == e.before[1]
              raised == old.strength +
                          (IF e.next.timestamp - e.curr.timestamp < 60000
                           THEN SCALE \div 10 ELSE SCALE \div 20)
          IN e.existed =>
                /\ e.after.key = old.key
                /\ e.after.key = <<e.curr.source, e.next.source>>
                /\ e.after.strength = (IF raised > SCALE THEN SCALE ELSE raised)
                /\ ToSet(e.after.sharedConcepts) =
                       ToSet(old.sharedConcepts) \cup
                       (ToSet(e.curr.concepts) \cap ToSet(e.next.concepts))
                /\ \A a, b \in DOMAIN e.after.sharedConcepts :
                       e.after.sharedConcepts[a] = e.after.sharedConcepts[b] => a = b
                /\ e.after.lastActive = e.next.timestamp

\* a pair a minute or more apart has raised an existing coupling by 0.05, and a pair
\* has widened an existing coupling's shared concepts
C9_Witness ==
    /\ \E k \in DOMAIN couplingLog :
          /\ couplingLog[k].existed
          /\ couplingLog[k].next.timestamp - couplingLog[k].curr.timestamp >= 60000
          /\ couplingLog[k].after.strength = couplingLog[k].before[1].strength + SCALE \div 20
    /\ \E k \in DOMAIN couplingLog :
          /\ couplingLog[k].existed
          /\ Len(couplingLog[k].after.sharedConcepts) >
                Len(couplingLog[k].before[1].sharedConcepts)

\* C10 as stated: commonCount is the number of pairs (o1 in p1.occurrences, o2 in
\* p2.occurrences) with |o1.timestamp - o2.timestamp| < 30000.
C10_CommonCountsPairs ==
    \A k \in DOMAIN harmonicLog :
        LET e == harmonicLog[k]
        IN e.common =
             Cardinality({ ab \in (DOMAIN e.p1.occurrences) \X (DOMAIN e.p2.occurrences) :
                             LET d == e.p1.occurrences[ab[1]].timestamp
                                        - e.p2.occurrences[ab[2]].timestamp
                             IN d < 30000 /\ 0 - d < 30000 })

\* C10, amended: for every unordered pair of distinct registered patterns (p1, p2),
\* commonCount is the number of occurrences o1 of p1 for which some occurrence o2
\* of p2 has |o1.timestamp - o2.timestamp| < 30000.  If
\* commonCount > 0, amplification = strength(p1) * strength(p2) * commonCount /
\* frequency(p1), both strengths rise by 0.05 * amplification clamped to 1, and one
\* record with resonanceFrequency = 1 / (commonCount + 1) is appended; if
\* commonCount = 0, neither pattern changes and no record is appended.
C10_Amplifier ==
    (lastOp.op = "addObservation" /\ config.enableAutoAmplification) =>
        LET n == Len(patterns)
            close(p, q) ==
                { a \in DOMAIN p.occurrences :
                    \E b \in DOMAIN q.occurrences :
                        LET d == p.occurrences[a].timestamp - q.occurrences[b].timestamp
                        IN d < 30000 /\ 0 - d < 30000 }
            left(k, idx) ==
                IF harmonicLog[k].i = idx THEN harmonicLog[k].strength1
                ELSE harmonicLog[k].strength2
            met(k, idx) == harmonicLog[k].i = idx \/ harmonicLog[k].j = idx
            records == Concat([k \in 1..Len(harmonicLog) |-> harmonicLog[k].appended])
        IN \* one entry per unordered pair
           /\ 2 * Len(harmonicLog) = n * (n - 1)
           /\ \A i, j \in 1..n :
                 i < j => \E k \in DOMAIN harmonicLog :
                             harmonicLog[k].i = i /\ harmonicLog[k].j = j
           /\ \A k \in DOMAIN harmonicLog :
                 LET e == harmonicLog[k]
                     common == Cardinality(close(e.p1, e.p2))
                     amp == (e.p1.strength * e.p2.strength * common)
                                \div (SCALE * e.p1.frequency)
                     raise == (5 * amp) \div 100
                 IN /\ e.i < e.j
                    /\ e.p1.id = patterns[e.i].id
                    /\ e.p2.id = patterns[e.j].id
                    /\ e.common = common
                    \* the strengths the pair starts from are those earlier pairs left
                    /\ \A idx \in {e.i, e.j} :
                          \A m \in 1..(k - 1) :
                             (met(m, idx) /\ \A r \in (m + 1)..(k - 1) : ~met(r, idx))
                                => (IF idx = e.i THEN e.p1.strength ELSE e.p2.strength)
                                     = left(m, idx)
                    \* and the registry ends with what the last pair left
                    /\ \A idx \in {e.i, e.j} :
                          (\A r \in (k + 1)..Len(harmonicLog) : ~met(r, idx))
                             => patterns[idx].strength = left(k, idx)
                    /\ common > 0 =>
                          /\ e.strength1 = (IF e.p1.strength + raise > SCALE THEN SCALE
                                            ELSE e.p1.strength + raise)
                          /\ e.strength2 = (IF e.p2.strength + raise > SCALE THEN SCALE
                                            ELSE e.p2.strength + raise)
                          /\ e.appended =
                               << [pattern1Id |-> e.p1.id, pattern2Id |-> e.p2.id,
                                   amplificationFactor |-> amp,
                                   resonanceFrequency |-> SCALE \div (common + 1)] >>
                    /\ common = 0 =>
                          /\ e.strength1 = e.p1.strength
                          /\ e.strength2 = e.p2.strength
                          /\ e.appended = <<>>
           \* the history ends with the records of this run
           /\ Len(harmonics) < HarmonicsKept =>
                 /\ Len(harmonics) >= Len(records)
                 /\ \A r \in 1..Len(records) :
                       harmonics[Len(harmonics) - Len(records) + r] = records[r]

\* one run of the amplifier that raised a pair of patterns, with fewer common
\* occurrences than close pairs, and left another pair alone
C10_Witness ==
    /\ \E k \in DOMAIN harmonicLog :
          /\ harmonicLog[k].common > 0
          /\ harmonicLog[k].strength1 > harmonicLog[k].p1.strength
          /\ harmonicLog[k].strength2 > harmonicLog[k].p2.strength
          /\ harmonicLog[k].common < CommonPairs(harmonicLog[k].p1, harmonicLog[k].p2)
    /\ \E k \in DOMAIN harmonicLog :
          harmonicLog[k].common = 0 /\ harmonicLog[k].appended = <<>>

\* C6: after reset() the store, the pattern registry, the coupling registry and the
\* harmonic history are empty, the snapshot has no observations, patterns or
\* couplings, totalCoherence 0 and isResonant false, and there is no suggestion.
C6_ResetClearsEverything ==
    lastOp.op = "reset" =>
        /\ observations = <<>> /\ patterns = <<>>
        /\ couplings = <<>> /\ harmonics = <<>>
        /\ Snapshot.observations = <<>>
        /\ Snapshot.patterns = <<>>
        /\ Snapshot.couplings = <<>>
        /\ Snapshot.totalCoherence = 0
        /\ Snapshot.isResonant = FALSE
        /\ Suggestion = <<>>

\* a reset that had moments, patterns, couplings and feedback records to clear
C6_Witness ==
    /\ lastOp.op = "reset"
    /\ \A k \in 1..4 : lastOp.cleared[k] > 0

\* C7: after every addObservation, each concept contained in at least
\* patternMinFrequency stored moments has a pattern named "<concept> Resonance" with
\* concepts = [concept], whose occurrences are exactly the stored moments containing
\* the concept, in store order, and whose frequency is their number.
C7_PatternPerFrequentConcept ==
    lastOp.op = "addObservation" =>
        \A c \in StoredConcepts :
            Len(StoredWith(c)) >= config.patternMinFrequency =>
                \E i \in DOMAIN patterns :
                    /\ patterns[i].name = <<c, "Resonance">>
                    /\ patterns[i].concepts = <<c>>
                    /\ patterns[i].occurrences = StoredWith(c)
                    /\ patterns[i].frequency = Len(StoredWith(c))

----------------------------------------------------------------------------
(* C11..C20 *)

\* C11: after every addObservation the harmonic-feedback history holds at most 100
\* records, and when more were produced the retained ones are the 100 most recently
\* appended, in append order: each call leaves the last 100 of the history it found
\* followed by the records its run pushed.
C11_FeedbackKeepsLastHundred ==
    /\ [](Len(harmonics) <= 100)
    /\ [][lastOp'.op = "addObservation" =>
            LET pushed == harmonics \o Concat([k \in 1..Len(harmonicLog') |->
                                                 harmonicLog'[k].appended])
                n == Len(pushed)
                kept == IF n < 100 THEN n ELSE 100
            IN /\ Len(harmonics') = kept
               /\ \A i \in 1..kept : harmonics'[i] = pushed[n - kept + i]]_vars

\* an append whose run alone pushed more than a hundred records
C11_Witness ==
    /\ lastOp.op = "addObservation"
    /\ Cardinality({ k \in DOMAIN harmonicLog : harmonicLog[k].appended # <<>> }) > 100
    /\ Len(harmonics) = 100

\* C12: with enableAutoAmplification = false, after any sequence of addObservation
\* calls the harmonic-feedback history is empty, every registered pattern's strength
\* equals min(1, frequency / 10), and isResonant is false in every snapshot.
C12_NoAmplificationWhenDisabled ==
    ~config.enableAutoAmplification =>
        /\ harmonics = <<>>
        /\ \A i \in DOMAIN patterns :
              10 * patterns[i].strength =
                 (IF patterns[i].frequency > 10 THEN 10 * SCALE
                  ELSE patterns[i].frequency * SCALE)
        /\ ~Snapshot.isResonant

\* amplification is disabled and the snapshot has everything resonance needs but the
\* feedback history: patterns close in time, an active coupling, coherence above 0.5
C12_Witness ==
    /\ ~config.enableAutoAmplification
    /\ lastOp.op = "addObservation"
    /\ Len(patterns) >= 2
    /\ \E i \in DOMAIN couplings : now - couplings[i].lastActive < 60000
    /\ 2 * Snapshot.totalCoherence > SCALE

C14_ActionByFirstMatchingRule ==
    Suggestion # <<>> =>
        LET n == Len(observations)
            last == { i \in 1..n : i > n - 5 }
            gentle == \A i \in last : observations[i].type \in {"meditation", "insight"}
            critical == \E i \in last : observations[i].type = "critique"
            action == Suggestion[1].suggestedAction
        IN /\ gentle => action = "consult"
           /\ (~gentle /\ critical) => action = "meditate"
           /\ (~gentle /\ ~critical /\ Snapshot.isResonant) => action = "weave"
           /\ (~gentle /\ ~critical /\ ~Snapshot.isResonant) => action = "observe"
           /\ action \in {"consult", "meditate", "weave", "observe"}
           /\ action # "rest"
           /\ action = "weave" => (Snapshot.isResonant /\ ~critical /\ ~gentle)

\* weave is suggested although the store holds a critique, older than the last five
C14_Witness ==
    /\ Suggestion # <<>>
    /\ Suggestion[1].suggestedAction = "weave"
    /\ Len(observations) > 5
    /\ observations[1].type = "critique"

\* C15: once the appended moments have produced at least one detected pattern (some
\* concept occurs in at least patternMinFrequency stored moments),
\* suggestNextSynthesis and the adapter's composite recommendation are non-null, with
\* an action in {meditate, consult, weave, observe, rest} and a confidence in [0,1].
C15_SuggestionOncePatternDetected ==
    (/\ patterns # <<>>
     /\ \E c \in StoredConcepts : Len(StoredWith(c)) >= config.patternMinFrequency)
        => /\ Suggestion # <<>>
           /\ Recommendation(Snapshot, Suggestion) # <<>>
           /\ Suggestion[1].suggestedAction \in
                  {"meditate", "consult", "weave", "observe", "rest"}
           /\ Suggestion[1].confidence >= 0
           /\ Suggestion[1].confidence <= SCALE

\* C16: whenever the adapter's composite view carries a recommendation with
\* shouldWeave = true, that recommendation's action is weave.
C16_ShouldWeaveMeansWeave ==
    \A view \in CompositeViews :
        (view.recommendation # <<>> /\ view.recommendation[1].shouldWeave)
            => view.recommendation[1].action = "weave"

\* C17: whenever the adapter's composite view reports isResonant = true and
\* totalCoherence > 0.7, it carries a non-null recommendation whose shouldWeave flag
\* is true.
C17_ResonantAndCoherentMeansFlag ==
    \A view \in CompositeViews :
        (view.isResonant /\ 10 * view.totalCoherence > 7 * SCALE)
            => /\ view.recommendation # <<>>
               /\ view.recommendation[1].shouldWeave

\* C18: in the adapter's composite view, when a recommendation is present its
\* shouldWeave flag is true if and only if the suggested action is weave or the
\* snapshot is resonant with totalCoherence > 0.7 (a coherence of exactly 0.7 without
\* a weave action gives false); when suggestNextSynthesis returns null the
\* recommendation is null.
C18_ShouldWeaveFlag ==
    \A view \in CompositeViews :
        /\ view.recommendation # <<>> =>
              (view.recommendation[1].shouldWeave <=>
                  \/ view.recommendation[1].action = "weave"
                  \/ (view.isResonant /\ 10 * view.totalCoherence > 7 * SCALE))
        /\ Suggestion = <<>> => view.recommendation = <<>>
        /\ view.recommendation = <<>> => Suggestion = <<>>

\* a composite view that is resonant with a coherence of exactly 0.7 and recommends
\* something other than weave, without the flag
C18_Witness ==
    \E view \in CompositeViews :
        /\ view.isResonant
        /\ 10 * view.totalCoherence = 7 * SCALE
        /\ view.recommendation # <<>>
        /\ view.recommendation[1].action # "weave"
        /\ ~view.recommendation[1].shouldWeave

\* C19 as stated: two consecutive getEcosystemState calls with no addObservation or
\* reset between them return identical results (same observations, patterns,
\* couplings, coherence, resonance flag, dominant concepts, emergent intentions and
\* snapshot timestamp).
C19_SnapshotsIdentical ==
    \A ij \in SnapshotPairs : reads[ij[1]].value = reads[ij[2]].value

\* C19, amended: two getEcosystemState calls with no addObservation or reset between
\* them return the same patterns, couplings and emergent intentions, and, when the
\* clock does not advance from the first call to the return of the second, identical
\* results (same observations, coherence, resonance flag, dominant concepts and
\* snapshot timestamp too).
C19_SnapshotsAgree ==
    \A ij \in SnapshotPairs :
        LET first == reads[ij[1]].value
            second == reads[ij[2]].value
        IN /\ first.patterns = second.patterns
           /\ first.couplings = second.couplings
           /\ first.emergentIntentions = second.emergentIntentions
           /\ first.patterns = patterns
           /\ first.couplings = couplings
           /\ first.observedAt = second.observedAt => first = second

\* two snapshots with nothing appended between them, taken so far apart that the
\* moments have left the window
C19_Witness ==
    /\ patterns # <<>>
    /\ couplings # <<>>
    /\ Len(reads) = 2
    /\ \E ij \in SnapshotPairs :
          /\ reads[ij[1]].value.observedAt < reads[ij[2]].value.observedAt
          /\ Len(reads[ij[1]].value.observations) > Len(reads[ij[2]].value.observations)

\* C20: getEcosystemState, suggestNextSynthesis and visualizeCoupling leave the engine
\* state unchanged: the store, the pattern registry (members, order, occurrences,
\* frequencies, strengths), the coupling registry and the harmonic-feedback history
\* are the same after the call as before.
C20_ReadsLeaveEngineUnchanged ==
    [][Len(reads') > Len(reads) =>
          /\ observations' = observations
          /\ patterns' = patterns
          /\ couplings' = couplings
          /\ harmonics' = harmonics]_vars

\* reading calls have returned on an engine that holds patterns, couplings and
\* feedback records, the snapshot leaving out stored moments older than the window
C20_Witness ==
    /\ patterns # <<>> /\ couplings # <<>> /\ harmonics # <<>>
    /\ Len(reads) = 2
    /\ reads[1].op = "getEcosystemState"
    /\ reads[2].op \in {"suggestNextSynthesis", "visualizeCoupling"}
    /\ Len(reads[1].value.observations) < Len(observations)

----------------------------------------------------------------------------
(* C21..C30 *)

\* the indices of the patterns that the detector of the last addObservation created
\* or refreshed: those of the concepts frequent enough in the store, under the id of
\* the instant of the call
RefreshedNow ==
    { i \in DOMAIN patterns :
        /\ patterns[i].id = PatternId(patterns[i].concepts[1], now)
        /\ i = PatternIndex(patterns, patterns[i].id)
        /\ Len(MomentsOf(ConceptPushes(observations), patterns[i].concepts[1]))
              >= config.patternMinFrequency }

\* the entries of the amplifier's log that concern the pattern at index i, in order
HarmonicEntriesOf(i) == SelectSeq(harmonicLog, LAMBDA e : e.i = i \/ e.j = i)

StrengthBefore(e, i) == IF e.i = i THEN e.p1.strength ELSE e.p2.strength
StrengthAfter(e, i) == IF e.i = i THEN e.strength1 ELSE e.strength2

\* C21: when addObservation returns, the detector has run on the store as the
\* eviction left it (a frequent concept's pattern holds exactly the stored moments of
\* the concept), the coupling scan has run on that same store (one log entry per
\* qualifying adjacent pair of it), and the amplifier, if enabled, has run after the
\* detector on the registry the detector left (it visited every pair of registered
\* patterns, met each refreshed pattern at its frequency-derived strength, and the
\* registry holds the strengths it wrote); if disabled it has not run at all.
C21_StepsInOrder ==
    lastOp.op = "addObservation" =>
        LET pushes == ConceptPushes(observations)
            n == Len(patterns)
        IN /\ \A c \in StoredConcepts :
                 Len(MomentsOf(pushes, c)) >= config.patternMinFrequency =>
                     \E i \in RefreshedNow :
                         /\ patterns[i].concepts = <<c>>
                         /\ patterns[i].occurrences = MomentsOf(pushes, c)
           /\ CouplingLogFaithful
           /\ ~config.enableAutoAmplification =>
                 /\ harmonicLog = <<>>
                 /\ \A i \in RefreshedNow :
                       patterns[i].strength = FrequencyStrength(patterns[i].frequency)
           /\ config.enableAutoAmplification =>
                 /\ 2 * Len(harmonicLog) = n * (n - 1)
                 /\ \A k \in DOMAIN harmonicLog :
                       LET e == harmonicLog[k]
                       IN /\ e.i \in 1..n /\ e.j \in (e.i + 1)..n
                          /\ e.p1.id = patterns[e.i].id
                          /\ e.p2.id = patterns[e.j].id
                          /\ e.p1.occurrences = patterns[e.i].occurrences
                          /\ e.p2.occurrences = patterns[e.j].occurrences
                 /\ \A i \in RefreshedNow :
                       LET mine == HarmonicEntriesOf(i)
                       IN IF mine = <<>>
                          THEN patterns[i].strength
                                  = FrequencyStrength(patterns[i].frequency)
                          ELSE /\ StrengthBefore(mine[1], i)
                                     = FrequencyStrength(patterns[i].frequency)
                               /\ patterns[i].strength
                                     = StrengthAfter(mine[Len(mine)], i)

\* an addObservation has returned that evicted a moment, left a qualifying pair in
\* the store, and whose amplifier raised a refreshed pattern above its
\* frequency-derived strength
C21_Witness ==
    /\ lastOp.op = "addObservation"
    /\ Len(history) > Len(observations)
    /\ couplingLog # <<>>
    /\ config.enableAutoAmplification
    /\ \E i \in RefreshedNow :
          patterns[i].strength > FrequencyStrength(patterns[i].frequency)

PatternIds(pats) == { pats[i].id : i \in DOMAIN pats }
CouplingKeys(cps) == { cps[i].key : i \in DOMAIN cps }

\* C22: every step other than a reset (an addObservation, one that evicts included, a
\* read, the passing of time) leaves every registered pattern identifier and every
\* registered coupling key registered.
C22_RegistriesOnlyGrow ==
    [][lastOp'.op # "reset" =>
          /\ PatternIds(patterns) \subseteq PatternIds(patterns')
          /\ CouplingKeys(couplings) \subseteq CouplingKeys(couplings')]_vars

\* a read has returned on an engine whose registries hold a pattern that the store
\* no longer supports (one of its moments was evicted) and a coupling that no adjacent
\* pair of the store maps to
C22_Witness ==
    /\ Len(history) > Len(observations)
    /\ Len(reads) > 0
    /\ \E i \in DOMAIN patterns :
          \E k \in DOMAIN patterns[i].occurrences :
              ~Includes(observations, patterns[i].occurrences[k])
    /\ \E k \in DOMAIN couplings :
          \A i \in QualifyingPairs :
              CouplingId(observations[i], observations[i + 1]) # couplings[k].key

\* the stored moments of the recent window, by index
RecentIndices ==
    { i \in DOMAIN observations : observations[i].timestamp > now - config.coherenceWindow }

RecentConcepts == UNION { ToSet(observations[i].concepts) : i \in RecentIndices }

RECURSIVE SumOver(_, _)
SumOver(f, S) ==
    IF S = {} THEN 0
    ELSE LET x == CHOOSE y \in S : TRUE IN f[x] + SumOver(f, S \ {x})

\* the novelty accumulated by a concept: that of every recent moment, once per entry
\* of the moment's concept list that names the concept
AccumulatedNovelty(c) ==
    SumOver([i \in RecentIndices |->
                Cardinality({ k \in DOMAIN observations[i].concepts :
                                observations[i].concepts[k] = c })
                    * NoveltyOf(observations[i])],
            RecentIndices)

StrongPatterns == { i \in DOMAIN patterns : patterns[i].strength > (6 * SCALE) \div 10 }

\* C24: a snapshot's emergentIntentions names the first three (or fewer) patterns
\* stronger than 0.6 in the registry's insertion order, in that order; a pattern at
\* exactly 0.6 is not named, nor is a fourth qualifying pattern however strong.
C24_EmergentIntentions ==
    LET named == { i \in StrongPatterns :
                     Cardinality({ j \in StrongPatterns : j < i }) < 3 }
        intentions == Snapshot.emergentIntentions
    IN /\ Len(intentions) = Cardinality(named)
       /\ \A i \in named :
             intentions[Cardinality({ j \in named : j <= i })] = patterns[i].name

\* four patterns qualify, the fourth registered is stronger than the three named,
\* and a registered pattern sits at exactly 0.6
C24_Witness ==
    /\ Len(Snapshot.emergentIntentions) = 3
    /\ \E i \in StrongPatterns :
          /\ Cardinality({ j \in StrongPatterns : j < i }) >= 3
          /\ \A j \in StrongPatterns : j < i => patterns[j].strength < patterns[i].strength
    /\ \E i \in DOMAIN patterns : patterns[i].strength = (6 * SCALE) \div 10

\* the registry positions of the couplings last active less than 120000 ms ago
VisibleCouplings == { i \in DOMAIN couplings : now - couplings[i].lastActive < 120000 }

\* the registry position of the coupling that a line of the graph shows
ShownCoupling(line) ==
    CHOOSE i \in DOMAIN couplings :
        couplings[i].sourceId = line.sourceId /\ couplings[i].targetId = line.targetId

\* n is x rounded to the nearest integer, halves upwards (x in fixed point)
IsRounded(n, x) == 2 * n * SCALE - SCALE <= 2 * x /\ 2 * x < 2 * n * SCALE + SCALE

\* C25: what visualizeCoupling returns is the fixed message exactly when no
\* registered coupling was active less than 120000 ms ago; otherwise it has one entry
\* per such coupling and no other, strongest first, each with a bar of
\* round(strength * 10) filled segments, between 0 and 10.
C25_CouplingGraph ==
    lastOp.op = "visualizeCoupling" =>
        LET viz == reads[Len(reads)].value
        IN /\ viz.heading = "No active couplings detected." <=> VisibleCouplings = {}
           /\ VisibleCouplings = {} => viz.graph = <<>>
           /\ VisibleCouplings # {} =>
                 /\ Len(viz.graph) = Cardinality(VisibleCouplings)
                 /\ { ShownCoupling(viz.graph[k]) : k \in DOMAIN viz.graph }
                       = VisibleCouplings
                 /\ \A k \in DOMAIN viz.graph :
                       /\ viz.graph[k].filled \in 0..10
                       /\ IsRounded(viz.graph[k].filled,
                                    couplings[ShownCoupling(viz.graph[k])].strength * 10)
                 /\ \A k \in 1..(Len(viz.graph) - 1) :
                       couplings[ShownCoupling(viz.graph[k])].strength
                          >= couplings[ShownCoupling(viz.graph[k + 1])].strength

\* the call has returned a graph of several couplings that puts a coupling before one
\* registered earlier, and leaves out a registered coupling that is no longer active
C25_Witness ==
    /\ lastOp.op = "visualizeCoupling"
    /\ Len(reads[Len(reads)].value.graph) >= 2
    /\ ShownCoupling(reads[Len(reads)].value.graph[1])
          > ShownCoupling(reads[Len(reads)].value.graph[2])
    /\ VisibleCouplings # DOMAIN couplings

\* C26: a getEcosystemState call made when no pattern is registered, or when no
\* stored moment lies in the recent window, returns (it is defined: no division by
\* zero) a snapshot with totalCoherence 0 and isResonant false.
C26_DegenerateSnapshot ==
    lastOp.op = "getEcosystemState" =>
        LET snapshot == reads[Len(reads)].value
        IN (patterns = <<>> \/ RecentIndices = {}) =>
              /\ snapshot.totalCoherence = 0
              /\ snapshot.isResonant = FALSE
              /\ snapshot.observations
                    = SelectSeq(observations, LAMBDA o : o.id \in
                                  { observations[i].id : i \in RecentIndices })

\* two snapshots of an engine that holds moments and patterns: the first, with the
\* moments in the window, reports a positive coherence; the second, taken once they
\* have left the window, reports 0
C26_Witness ==
    /\ lastOp.op = "getEcosystemState"
    /\ Len(reads) = 2
    /\ reads[1].op = "getEcosystemState"
    /\ reads[1].value.totalCoherence > 0
    /\ reads[2].value.totalCoherence = 0
    /\ patterns # <<>> /\ observations # <<>> /\ RecentIndices = {}

\* C27: no coupling weaker than the configured couplingThreshold is in the coupling
\* registry or in the couplings of a snapshot.
C27_CouplingsReachThreshold ==
    /\ \A i \in DOMAIN couplings : couplings[i].strength >= config.couplingThreshold
    /\ \A i \in DOMAIN Snapshot.couplings :
          Snapshot.couplings[i].strength >= config.couplingThreshold

Handlers ==
    {"onMeditationLogged", "onCritiqueLogged", "onNarrativeWoven", "onInsightGenerated"}

\* C28: a handler's call appends exactly one moment to the engine's store, with the
\* producer and kind of the handler: onMeditationLogged (bridge, meditation) with the
\* event's extractedPatterns as concepts; onCritiqueLogged (bridge, critique) with the
\* event's relevanceScore as relevance and at most 5 concepts; onInsightGenerated
\* (creative, insight) with the patterns of the insights, one each; onNarrativeWoven
\* (dream-weaver, weave) with at least one concept.
C28_HandlersAppendOneMoment ==
    [][lastOp'.op \in Handlers =>
          LET data == lastOp'.data
              m == observations'[Len(observations')]
          IN /\ Len(observations') = Len(observations) + 1
             /\ SubSeq(observations', 1, Len(observations)) = observations
             /\ lastOp'.op = "onMeditationLogged" =>
                   /\ m.source = "bridge" /\ m.type = "meditation"
                   /\ m.concepts = data.extractedPatterns
             /\ lastOp'.op = "onCritiqueLogged" =>
                   /\ m.source = "bridge" /\ m.type = "critique"
                   /\ m.relevance = <<data.relevanceScore>>
                   /\ Len(m.concepts) <= 5
             /\ lastOp'.op = "onInsightGenerated" =>
                   /\ m.source = "creative" /\ m.type = "insight"
                   /\ Len(m.concepts) = Len(data.insights)
                   /\ \A k \in DOMAIN m.concepts : m.concepts[k] = data.insights[k].pattern
             /\ lastOp'.op = "onNarrativeWoven" =>
                   /\ m.source = "dream-weaver" /\ m.type = "weave"
                   /\ m.concepts # <<>>]_vars

\* the critique handler has just recorded feedback holding more than five long
\* words, after a meditation and a narrative without any candidate concept
C28_Witness ==
    /\ lastOp.op = "onCritiqueLogged"
    /\ Len(observations[Len(observations)].concepts) = 5
    /\ Len(Split(lastOp.data.extractedFeedback[1])) + Len(Split(lastOp.data.extractedFeedback[2]))
          > 5
    /\ \E i \in DOMAIN observations : observations[i].type = "meditation"
    /\ \E i \in DOMAIN observations :
          /\ observations[i].type = "weave"
          /\ observations[i].concepts = <<"synthesis", "narrative">>

\* C29: a registered coupling's strength is at least 0.3, and every step other than a
\* reset leaves each registered coupling registered under its key with the same
\* source, target and type and a strength that is not lower.
C29_CouplingsKeepIdentity ==
    /\ [](\A i \in DOMAIN couplings : 10 * couplings[i].strength >= 3 * SCALE)
    /\ [][lastOp'.op # "reset" =>
             \A i \in DOMAIN couplings :
                 \E j \in DOMAIN couplings' :
                     /\ couplings'[j].key = couplings[i].key
                     /\ couplings'[j].sourceId = couplings[i].sourceId
                     /\ couplings'[j].targetId = couplings[i].targetId
                     /\ couplings'[j].type = couplings[i].type
                     /\ couplings'[j].strength >= couplings[i].strength]_vars

\* the last scan strengthened a coupling with a pair whose own type is not the
\* coupling's, and a coupling has grown beyond 0.5
C29_Witness ==
    /\ \E k \in DOMAIN couplingLog :
          /\ couplingLog[k].existed
          /\ couplingLog[k].after.strength > couplingLog[k].before[1].strength
          /\ InferCouplingType(couplingLog[k].curr, couplingLog[k].next)
                # couplingLog[k].after.type
    /\ \E i \in DOMAIN couplings : couplings[i].strength > (5 * SCALE) \div 10

\* the adjacent pairs of a store that share a concept and map to a key, by the index
\* of the earlier moment
PairsOfKey(obs, key) ==
    { i \in 1..(Len(obs) - 1) :
        /\ ToSet(obs[i].concepts) \cap ToSet(obs[i + 1].concepts) # {}
        /\ <<obs[i].source, obs[i + 1].source>> = key }

\* 0.1 for each such pair less than 60000 ms apart, 0.05 for each other one
GrowthOfKey(obs, key) ==
    SumOver([i \in PairsOfKey(obs, key) |->
                IF obs[i + 1].timestamp - obs[i].timestamp < 60000
                THEN SCALE \div 10
                ELSE SCALE \div 20],
            PairsOfKey(obs, key))

\* C30: an addObservation raises the strength of every coupling registered before
\* it by 0.1 (moments less than 60000 ms apart) or 0.05 for each qualifying adjacent
\* pair of the coupling's key in the store after the append, up to 1, whether or not
\* the new moment shares a concept with its predecessor.
C30_RescanStrengthens ==
    [][lastOp'.op = "addObservation" =>
          \A i \in DOMAIN couplings :
              \E j \in DOMAIN couplings' :
                  /\ couplings'[j].key = couplings[i].key
                  /\ couplings'[j].strength
                        = Min(SCALE, couplings[i].strength
                                        + GrowthOfKey(observations', couplings[i].key))]_vars

\* the last moment appended shares no concept with its predecessor, the append
\* evicted a moment, and it raised a coupling by a pair a minute apart (0.05) while
\* leaving alone a coupling whose pairs have left the store
C30_Witness ==
    /\ lastOp.op = "addObservation"
    /\ Len(history) > Len(observations)
    /\ Len(observations) >= 2
    /\ Len(observations) - 1 \notin QualifyingPairs
    /\ \E k \in DOMAIN couplingLog :
          /\ couplingLog[k].existed
          /\ couplingLog[k].after.strength - couplingLog[k].before[1].strength
                = SCALE \div 20
    /\ \E i \in DOMAIN couplings : PairsOfKey(observations, couplings[i].key) = {}

----------------------------------------------------------------------------
(* C31..C37 *)

\* C31: every occurrence held by a registered pattern is a moment of the store, and
\* the pattern's frequency is the number of stored moments that contain its concept.
C31_PatternsWithinStore ==
    \A i \in DOMAIN patterns :
        /\ \A k \in DOMAIN patterns[i].occurrences :
              Includes(observations, patterns[i].occurrences[k])
        /\ patterns[i].frequency = Len(StoredWith(patterns[i].concepts[1]))

\* C32: every record of the harmonic-feedback history pairs the patterns of two
\* different concepts.
C32_FeedbackAcrossConcepts ==
    \A k \in DOMAIN harmonics : harmonics[k].pattern1Id[2] # harmonics[k].pattern2Id[2]

\* load / capacity of a server as distributeLoad sees it, as a fraction
LoadOf(server) == MapGet(serverLoads, server, 0)
CapacityOf(server) == MapGet(serverCapacities, server, 1)
Below(s1, s2) == LoadOf(s1) * CapacityOf(s2) < LoadOf(s2) * CapacityOf(s1)
Available(server) == 10 * LoadOf(server) < 8 * CapacityOf(server)

\* C33: distributeLoad returns the listed server of least load / capacity among those
\* below 0.8, the earliest listed on a tie, and adds 1 to that server's load and to no
\* other; with no listed server below 0.8 it returns null and changes no load.
C33_DistributeLoad ==
    [][lastOp'.op = "distributeLoad" =>
          LET servers == lastOp'.servers
              result == lastOp'.result
              candidates == { k \in DOMAIN servers : Available(servers[k]) }
          IN IF candidates = {}
             THEN result = <<>> /\ serverLoads' = serverLoads
             ELSE \E k \in candidates :
                     /\ result = <<servers[k]>>
                     /\ \A j \in candidates : ~Below(servers[j], servers[k])
                     /\ \A j \in candidates : j < k => Below(servers[k], servers[j])
                     /\ MapGet(serverLoads', servers[k], 0) = LoadOf(servers[k]) + 1
                     /\ \A other \in (DOMAIN serverLoads \cup DOMAIN serverLoads')
                                        \ {servers[k]} :
                           MapGet(serverLoads', other, 0) = LoadOf(other)]_vars

\* C34: whatever registerServer, distributeLoad and completeOperation calls are made,
\* the load of every server is at least 0 and at most its registered capacity, and
\* registering a server again keeps its load.
C34_LoadsWithinCapacity ==
    /\ [](\A server \in DOMAIN serverLoads :
             /\ serverLoads[server] >= 0
             /\ server \in DOMAIN serverCapacities =>
                   serverLoads[server] <= serverCapacities[server])
    /\ [][lastOp'.op = "registerServer" /\ lastOp'.serverId \in DOMAIN serverLoads =>
             serverLoads'[lastOp'.serverId] = serverLoads[lastOp'.serverId]]_vars

\* the pending timers of a server: its assigned operations whose timer has not fired
PendingOf(server) == Cardinality({ k \in DOMAIN timers : timers[k] = server })

\* C35: however balance_load calls and timer callbacks interleave, the load of a
\* server is the number of its assigned operations whose timer has not fired yet, it
\* never exceeds 8 of the capacity 10, a timer that fires completes exactly one
\* operation of its server, and when no timer is pending every load is 0.
C35_LoadIsPendingTimers ==
    /\ [](\A server \in DOMAIN serverLoads :
             /\ serverLoads[server] = PendingOf(server)
             /\ serverLoads[server] <= 8
             /\ serverCapacities[server] = DefaultCapacity
             /\ timers = <<>> => serverLoads[server] = 0)
    /\ [](\A k \in DOMAIN timers : timers[k] \in DOMAIN serverLoads)
    /\ [][lastOp'.op = "timer" =>
             /\ serverLoads'[lastOp'.serverId] = serverLoads[lastOp'.serverId] - 1
             /\ \A other \in DOMAIN serverLoads \ {lastOp'.serverId} :
                   serverLoads'[other] = serverLoads[other]]_vars

\* a timer has fired while another server is full: its ninth operation was refused
C35_Witness ==
    /\ lastOp.op = "timer"
    /\ served = ToolCalls
    /\ \E server \in DOMAIN serverLoads :
          serverLoads[server] = 8 /\ server # lastOp.serverId

\* how many orchestrate calls named `operation` are in a sequence of calls
CallsFor(operation, called) == Cardinality({ k \in DOMAIN called : called[k] = operation })

\* C36: the k-th orchestrate call for an operation name returns min(k, 3) steps
\* numbered 0 .. min(k, 3) - 1, getPropagationMetrics then reports k for that name,
\* and the call changes the metric of no other name.
C36_OrchestrateSteps ==
    /\ [][lastOp'.op = "orchestrate" =>
             LET operation == lastOp'.operation
                 k == CallsFor(operation, orchestrated')
                 steps == lastOp'.result
                 before == GetPropagationMetrics(propagationChains)
                 after == GetPropagationMetrics(propagationChains')
             IN /\ Len(steps) = (IF k < 3 THEN k ELSE 3)
                /\ \A n \in DOMAIN steps :
                      steps[n].step = n - 1 /\ steps[n].operation = operation
                /\ after[operation] = k
                /\ DOMAIN after = DOMAIN before \cup {operation}
                /\ \A other \in DOMAIN before \ {operation} :
                      after[other] = before[other]]_vars
    /\ [](lastOp.op = "getPropagationMetrics" =>
             /\ DOMAIN lastOp.result = { orchestrated[k] : k \in DOMAIN orchestrated }
             /\ \A operation \in DOMAIN lastOp.result :
                   lastOp.result[operation] = CallsFor(operation, orchestrated))

\* the metrics are read after a fourth call for one name, which returned three steps,
\* and a call for another name
C36_Witness ==
    /\ lastOp.op = "getPropagationMetrics"
    /\ \E operation \in DOMAIN lastOp.result :
          /\ lastOp.result[operation] = 4
          /\ orchestrated[Len(orchestrated)] = operation
          /\ \E other \in DOMAIN lastOp.result : other # operation

\* C37: in every reachable state of the coupling network the couplings are symmetric
\* and every coupling value and every harmony lies in [0, 1]; resonate(s, signal)
\* changes the harmony only of servers coupled to s, and for an unregistered s it
\* returns an empty map and changes nothing.
C37_NetworkInvariants ==
    /\ [](\A serverA \in DOMAIN networkCouplings :
             \A serverB \in DOMAIN networkCouplings[serverA] :
                 /\ serverB \in DOMAIN networkCouplings
                 /\ serverA \in DOMAIN networkCouplings[serverB]
                 /\ networkCouplings[serverB][serverA] = networkCouplings[serverA][serverB]
                 /\ networkCouplings[serverA][serverB] \in 0 .. SCALE)
    /\ [](\A server \in DOMAIN harmonyMetrics : harmonyMetrics[server] \in 0 .. SCALE)
    /\ [][lastOp'.op = "resonate" =>
             LET serverId == lastOp'.serverId
             IN /\ networkCouplings' = networkCouplings
                /\ DOMAIN harmonyMetrics' = DOMAIN harmonyMetrics
                /\ IF serverId \in DOMAIN networkCouplings
                   THEN /\ DOMAIN lastOp'.result = DOMAIN networkCouplings[serverId]
                        /\ \A server \in DOMAIN harmonyMetrics :
                              harmonyMetrics'[server] # harmonyMetrics[server] =>
                                  server \in DOMAIN networkCouplings[serverId]
                   ELSE /\ lastOp'.result = <<>>
                        /\ harmonyMetrics' = harmonyMetrics]_vars

\* a server coupled to two others has resonated: the harmony of both changed, the
\* harmony of a third registered server did not, and one response was clamped
C37_Witness ==
    /\ lastOp.op = "resonate"
    /\ lastOp.serverId \in DOMAIN networkCouplings
    /\ Cardinality(DOMAIN lastOp.result) = 2
    /\ \A server \in DOMAIN lastOp.result : harmonyMetrics[server] < SCALE
    /\ \E server \in DOMAIN harmonyMetrics :
          server \notin DOMAIN lastOp.result /\ harmonyMetrics[server] = SCALE
    /\ \E server \in DOMAIN lastOp.result : lastOp.result[server] = 0

====
